---------------------------- MODULE Spec2Model ----------------------------
(***************************************************************************)
(* Model of EveDay: the concurrent ingestion pipeline (ExcelProcessor.run  *)
(* in main.py), the date-keyed history store (history_manager.py), the     *)
(* extraction from one worksheet (ExcelProcessor.process_sheet) and the    *)
(* export with retries and fallback (copy_sheets_with_fallback) and the    *)
(* naming of its sheets (_sanitize_sheet_name), and the editing of a       *)
(* line's events by hand (SummaryFrame), and the date under which the      *)
(* window saves to the history (App).  Each has variables and a            *)
(* specification of its own: Spec, SpecHist, SpecSheet, SpecCopy, SpecName,*)
(* SpecEdit and SpecApp.  SpecRunFair is Spec with threads that keep       *)
(* running.                                                                *)
(*                                                                         *)
(* Status states are written in ASCII: "processing" is the source's        *)
(* 'обработка', "done" is 'готово', "error" is 'ошибка'.                   *)
(***************************************************************************)
EXTENDS Integers, Sequences, FiniteSets, TLC

(***************************************************************************)
(* Bounds of the model                                                     *)
(***************************************************************************)
\* number of path slots handed to ExcelProcessor.run (the application has 11)
NSlots == 2

\* number of save_problems calls in one behaviour
MaxSaves == 2

\* number of rows written into the worksheet handed to process_sheet
MaxRows == 4

\* longest run of plain characters in front of the part of a line name that
\* holds the characters a sheet name may not have
MaxPad == 32

\* number of events a line may hold before the user stops adding
MaxEvents == 3

(***************************************************************************)
(* Program constants                                                       *)
(***************************************************************************)
\* ThreadPoolExecutor(max_workers=4)
max_workers == 4

VARIABLES
    \* ---- ExcelProcessor.run -------------------------------------------
    file_paths,        \* the file_paths argument: a sequence of paths, a path a sequence of characters
    cancel_event,      \* threading.Event: TRUE once set
    is_running,        \* self.is_running
    mpc,               \* position of the thread that executes run
    futures,           \* number of futures submitted so far (futures[k] is for valid_paths[k])
    pc,                \* per future: position of its work item / of process_one
    yielded,           \* futures that as_completed has already yielded
    lock,              \* threading.Lock: 0 free, k held by the worker of future k, Main held by run
    snapshot,          \* per worker: the list value read by list.append inside the critical section
    valid_lines_data,  \* the shared result list (a LineData is identified by its path index)
    processed_count,   \* the processed counter of run
    progress,          \* values passed to update_progress, in order, as <<numerator, denominator>>
    status,            \* per path: the (progress, state) pairs passed to status_callback, in order
    outcome,           \* per path: what happened to it (history variable)
    opened,            \* paths for which openpyxl.load_workbook was called (history variable)
    extracted,         \* paths for which process_sheet was called (history variable)
    past_check         \* paths whose worker was past its post-open check when the event was set (history variable)

pvars == <<file_paths, cancel_event, is_running, mpc, futures, pc, yielded, lock,
           snapshot, valid_lines_data, processed_count, progress, status, outcome,
           opened, extracted, past_check>>

VARIABLES
    \* ---- HistoryManager -----------------------------------------------
    problems,     \* the committed rows of table problems, in rowid order
    db_lock,      \* the database's write lock: "free", or c when held by caller c's connection
    hpc,          \* per caller: position inside save_problems
    args,         \* per caller: the arguments of its save_problems call and the call's number
    work,         \* per caller: the table as its open transaction sees it
    count,        \* per caller: the local variable count
    ret,          \* per caller: how its last save_problems call ended
    calls,        \* number of save_problems calls made so far
    latest,       \* per date key: the last save committed for it (history variable)
    overlap,      \* per caller: calls that were in progress during its own (history variable)
    replaced,     \* TRUE once a commit has replaced non-empty rows by other rows (history variable)
    interleaved   \* TRUE once two overlapping saves for one date have both committed (history variable)

hvars == <<problems, db_lock, hpc, args, work, count, ret, calls, latest,
           overlap, replaced, interleaved>>

VARIABLES
    \* ---- ExcelProcessor.process_sheet ---------------------------------
    sheet,                  \* the worksheet: row number -> the 13 values of the row, for the rows written
    min_minutes_threshold,  \* the threshold argument, in minutes
    exclude_str,            \* the exclusion string of the run, a text
    sheet_result            \* what process_sheet returned, NoResult before the call

svars == <<sheet, min_minutes_threshold, exclude_str, sheet_result>>

VARIABLES
    \* ---- copy_sheets_with_fallback ------------------------------------
    HAS_WIN32COM,   \* the module constant set by the import of win32com
    dest,           \* the file at save_path: "absent", "present", or "locked" (present and open elsewhere)
    export_lines,   \* the lines_data argument, a line being what copying it meets
    cpc,            \* position of the thread that makes the export
    outer_attempt,  \* attempt of the wrapper of copy_sheets_with_fallback
    attempt,        \* attempt of the wrapper of copy_sheets_fast
    idx,            \* number of lines the running strategy has handled
    copied,         \* number of sheets the running strategy has copied into its workbook
    last_progress,  \* the value last passed to progress_callback
    exc,            \* the exception being handled
    fast_log,       \* what the wrapper of copy_sheets_fast has done in its current call (history variable)
    fast_calls,     \* number of invocations of copy_sheets_fast in this export (history variable)
    slept,          \* seconds spent in time.sleep of the wrappers (history variable)
    export_ret,     \* how the call of copy_sheets_with_fallback ended
    strategy_log,    \* the strategy runs of this export and how each ended, and the sleeps of the outer wrapper (history variable)
    excel_hosts,  \* Excel hosts started by the export that are still alive
    progress_log,  \* every value passed to progress_callback, in order
    export_names,  \* the line_name of each line of lines_data
    new_wb,  \* the sheets copied into the workbook being built: the line and the title
    other_excel  \* whether an Excel process the export did not start is running

cvars == <<HAS_WIN32COM, dest, export_lines, cpc, outer_attempt, attempt, idx, copied,
           last_progress, exc, fast_log, fast_calls, slept, export_ret,
           strategy_log,
           excel_hosts,
           progress_log,
           export_names,
           new_wb,
           other_excel>>

VARIABLES
    \* ---- _sanitize_sheet_name ------------------------------------------
    line_name,      \* the argument
    safe_name,      \* the value returned for line_name
    safe_again,     \* the value returned for safe_name
    npc             \* "idle", "call", "once", "twice"

nvars == <<line_name, safe_name, safe_again, npc>>

VARIABLES
    \* ---- SummaryFrame: the events of one line, edited by hand ----------
    ld_problems,    \* ld.problems of the line: a sequence of [time_val, formulation]
    tree            \* the rows of the table for the line: what each row shows

evars == <<ld_problems, tree>>

VARIABLES
    \* ---- App: the date of a run and the date of a save -----------------
    ui_day,         \* the text of the day field of the window
    run_day,        \* the day handed to the run in flight, 0 when there is none
    data_day,       \* the day the events shown in the summary were extracted for, 0 when there are none
    stored          \* per day of the history: the day its rows were extracted for, 0 when it has none

avars == <<ui_day, run_day, data_day, stored>>

vars == <<pvars, hvars, svars, cvars, nvars, evars, avars>>

\* the variables of the other components, which a step of one component leaves alone
not_pvars == <<hvars, svars, cvars, nvars, evars, avars>>
not_hvars == <<pvars, svars, cvars, nvars, evars, avars>>
not_svars == <<pvars, hvars, cvars, nvars, evars, avars>>
not_cvars == <<pvars, hvars, svars, nvars, evars, avars>>
not_nvars == <<pvars, hvars, svars, cvars, evars, avars>>
not_evars == <<pvars, hvars, svars, cvars, nvars, avars>>
not_avars == <<pvars, hvars, svars, cvars, nvars, evars>>

Slots == 1..NSlots
Main == NSlots + 1

(***************************************************************************)
(* ExcelProcessor.run: the inputs                                          *)
(***************************************************************************)
\* p.strip(): truthy iff the path holds a character that is not whitespace
NonBlank(p) == \E k \in 1..Len(p) : p[k] # " "

\* valid_paths = [p for p in file_paths if p.strip()]
valid_paths == SelectSeq(file_paths, NonBlank)

total_files == Len(valid_paths)

\* what the user may have typed into slot k: nothing, a space, or a file of its own
SlotInput(k) == {<<>>, <<" ">>, <<"L", k>>}

PathInputs == {f \in [Slots -> UNION {SlotInput(k) : k \in Slots}] :
                  \A k \in Slots : f[k] \in SlotInput(k)}

Terminal(s) == s[1] = 100 /\ s[2] \in {"done", "error"}

\* status reports that reach the observer newest first
EmitNewestFirst(i, updates) == status' = [status EXCEPT ![i] = updates \o @]

\* update_line(line_name, progress, status, message), one call after another
Emit(i, updates) == status' = [status EXCEPT ![i] = @ \o updates]

\* wb.close() after the calls already made; if it raises inside the try block the
\* except clause of process_one reports the path once more (lines 480-482)
EmitThenClose(i, updates) ==
    \E close_raises \in BOOLEAN :
        Emit(i, IF close_raises THEN updates \o << <<100, "error">> >> ELSE updates)

PInit ==
    /\ file_paths \in PathInputs
    /\ cancel_event = FALSE
    /\ is_running = FALSE
    /\ mpc = "call"
    /\ futures = 0
    /\ pc = [k \in Slots |-> "new"]
    /\ yielded = {}
    /\ lock = 0
    /\ snapshot = [k \in Slots |-> <<>>]
    /\ valid_lines_data = <<>>
    /\ processed_count = 0
    /\ progress = <<>>
    /\ status = [k \in Slots |-> <<>>]
    /\ outcome = [k \in Slots |-> "none"]
    /\ opened = {}
    /\ extracted = {}
    /\ past_check = {}

(***************************************************************************)
(* The lock                                                                *)
(***************************************************************************)
\* a broken lock that never blocks
AcquireNoWait(who) == lock' = who

\* with lock: entering blocks until the lock is free
Acquire(who) == lock = 0 /\ lock' = who

(***************************************************************************)
(* process_one, one action per stretch between two accesses to shared state *)
(***************************************************************************)
\* a failing file that takes the queued work items down with it
ReturnStopsPool(i) ==
    pc' = [k \in Slots |-> IF k = i THEN "finished"
                           ELSE IF pc[k] = "pending" THEN "cancelled" ELSE pc[k]]

\* process_one returns (lines 441, 453, 461, 484): this work item is over, no other is touched
Return(i) == pc' = [pc EXCEPT ![i] = "finished"]

Running == {k \in Slots : pc[k] \in {"entry", "open", "extract", "lock", "append"}}

\* a pool thread takes the oldest queued work item
Start(i) ==
    /\ pc[i] = "pending"
    /\ \A j \in 1..(i - 1) : pc[j] # "pending"
    /\ Cardinality(Running) < max_workers
    /\ pc' = [pc EXCEPT ![i] = "entry"]
    /\ UNCHANGED <<file_paths, cancel_event, is_running, mpc, futures, yielded, lock,
                   snapshot, valid_lines_data, processed_count, progress, status,
                   outcome, opened, extracted, past_check>>
    /\ UNCHANGED not_pvars

\* lines 436-457: the cancellation check at entry, the existence check, the call
\* of load_workbook
Entry(i) ==
    /\ pc[i] = "entry"
    /\ IF cancel_event
       THEN /\ Emit(i, << <<100, "error">> >>)
            /\ outcome' = [outcome EXCEPT ![i] = "cancelled_entry"]
            /\ Return(i)
            /\ UNCHANGED opened
       ELSE \E exists \in BOOLEAN :
              IF exists
              THEN /\ Emit(i, << <<10, "processing">>, <<30, "processing">> >>)
                   /\ opened' = opened \cup {i}
                   /\ pc' = [pc EXCEPT ![i] = "open"]
                   /\ UNCHANGED outcome
              ELSE /\ Emit(i, << <<10, "processing">>, <<100, "error">> >>)
                   /\ outcome' = [outcome EXCEPT ![i] = "missing_file"]
                   /\ Return(i)
                   /\ UNCHANGED opened
    /\ UNCHANGED <<file_paths, cancel_event, is_running, mpc, futures, yielded, lock,
                   snapshot, valid_lines_data, processed_count, progress, extracted, past_check>>
    /\ UNCHANGED not_pvars

\* lines 457-461: load_workbook returns or raises, the cancellation check after it
Open(i) ==
    /\ pc[i] = "open"
    /\ \E load_raises \in BOOLEAN :
         IF load_raises
         THEN /\ Emit(i, << <<100, "error">> >>)
              /\ outcome' = [outcome EXCEPT ![i] = "open_error"]
              /\ Return(i)
         ELSE IF cancel_event
              THEN /\ EmitThenClose(i, << <<100, "error">> >>)
                   /\ outcome' = [outcome EXCEPT ![i] = "cancelled_open"]
                   /\ Return(i)
              ELSE /\ pc' = [pc EXCEPT ![i] = "extract"]
                   /\ UNCHANGED <<status, outcome>>
    /\ UNCHANGED <<file_paths, cancel_event, is_running, mpc, futures, yielded, lock,
                   snapshot, valid_lines_data, processed_count, progress, opened,
                   extracted, past_check>>
    /\ UNCHANGED not_pvars

\* what process_sheet can do: return is_valid = True, return None with "Лист пустой",
\* return None with "Ошибка чтения", or raise
SheetResults == {"ok", "empty_sheet", "read_error", "extract_error"}

\* lines 462-468 and 473-482: locating the sheet, process_sheet, the failure branches
Extract(i) ==
    /\ pc[i] = "extract"
    /\ \E sheet_found \in BOOLEAN :
         IF ~sheet_found
         THEN /\ EmitThenClose(i, << <<100, "error">> >>)
              /\ outcome' = [outcome EXCEPT ![i] = "missing_sheet"]
              /\ Return(i)
              /\ UNCHANGED extracted
         ELSE \E r \in SheetResults :
              /\ extracted' = extracted \cup {i}
              /\ CASE r = "ok" ->
                        /\ Emit(i, << <<70, "processing">> >>)
                        /\ pc' = [pc EXCEPT ![i] = "lock"]
                        /\ UNCHANGED outcome
                   [] r \in {"empty_sheet", "read_error"} ->
                        /\ EmitThenClose(i, << <<70, "processing">>, <<100, "error">> >>)
                        /\ outcome' = [outcome EXCEPT ![i] = r]
                        /\ Return(i)
                   [] r = "extract_error" ->
                        /\ Emit(i, << <<70, "processing">>, <<100, "error">> >>)
                        /\ outcome' = [outcome EXCEPT ![i] = r]
                        /\ Return(i)
    /\ UNCHANGED <<file_paths, cancel_event, is_running, mpc, futures, yielded, lock,
                   snapshot, valid_lines_data, processed_count, progress, opened, past_check>>
    /\ UNCHANGED not_pvars

\* line 469: the worker enters `with lock`; list.append reads the list it extends
Lock(i) ==
    /\ pc[i] = "lock"
    /\ Acquire(i)
    /\ snapshot' = [snapshot EXCEPT ![i] = valid_lines_data]
    /\ pc' = [pc EXCEPT ![i] = "append"]
    /\ UNCHANGED <<file_paths, cancel_event, is_running, mpc, futures, yielded,
                   valid_lines_data, processed_count, progress, status, outcome,
                   opened, extracted, past_check>>
    /\ UNCHANGED not_pvars

\* lines 470-479: the append, leaving the lock, the done status, wb.close()
AppendLine(i) ==
    /\ pc[i] = "append"
    /\ valid_lines_data' = Append(snapshot[i], i)
    /\ snapshot' = [snapshot EXCEPT ![i] = <<>>]
    /\ lock' = IF lock = i THEN 0 ELSE lock
    /\ EmitThenClose(i, << <<100, "done">> >>)
    /\ outcome' = [outcome EXCEPT ![i] = "ok"]
    /\ Return(i)
    /\ UNCHANGED <<file_paths, cancel_event, is_running, mpc, futures, yielded,
                   processed_count, progress, opened, extracted, past_check>>
    /\ UNCHANGED not_pvars

(***************************************************************************)
(* ExcelProcessor.run, the thread that called it                           *)
(***************************************************************************)
\* lines 420-429 and 486-489
Run ==
    /\ mpc = "call"
    /\ IF total_files = 0
       THEN /\ is_running' = FALSE
            /\ progress' = Append(progress, <<0, 1>>)
            /\ mpc' = "done"
       ELSE /\ is_running' = TRUE
            /\ mpc' = "submit"
            /\ UNCHANGED progress
    /\ UNCHANGED <<file_paths, cancel_event, futures, pc, yielded, lock, snapshot,
                   valid_lines_data, processed_count, status, outcome, opened,
                   extracted, past_check>>
    /\ UNCHANGED not_pvars

\* lines 493-496: one turn of the submit loop
Submit ==
    /\ mpc = "submit"
    /\ IF futures < total_files /\ ~cancel_event
       THEN /\ futures' = futures + 1
            /\ pc' = [pc EXCEPT ![futures + 1] = "pending"]
            /\ UNCHANGED mpc
       ELSE /\ mpc' = "collect"
            /\ UNCHANGED <<futures, pc>>
    /\ UNCHANGED <<file_paths, cancel_event, is_running, yielded, lock, snapshot,
                   valid_lines_data, processed_count, progress, status, outcome,
                   opened, extracted, past_check>>
    /\ UNCHANGED not_pvars

Completed(f) == pc[f] \in {"finished", "cancelled"}

\* a cancel that also stops the work items already running
CancelAllPreemptive ==
    [k \in Slots |-> IF pc[k] \in {"new", "finished"} THEN pc[k] ELSE "cancelled"]

\* f.cancel() for every future: only a future not yet started is cancelled
CancelAll == [k \in Slots |-> IF pc[k] = "pending" THEN "cancelled" ELSE pc[k]]

\* lines 498-504: as_completed yields a completed future, the cancellation check
Collect ==
    /\ mpc = "collect"
    /\ IF yielded = 1..futures
       THEN /\ mpc' = "shutdown"
            /\ UNCHANGED <<yielded, pc>>
       ELSE \E f \in (1..futures) \ yielded :
              /\ Completed(f)
              /\ yielded' = yielded \cup {f}
              /\ IF cancel_event
                 THEN /\ pc' = CancelAll
                      /\ mpc' = "shutdown"
                 ELSE /\ mpc' = "mlock"
                      /\ UNCHANGED pc
    /\ UNCHANGED <<file_paths, cancel_event, is_running, futures, lock, snapshot,
                   valid_lines_data, processed_count, progress, status, outcome,
                   opened, extracted, past_check>>
    /\ UNCHANGED not_pvars

\* line 507: run enters `with lock`
MainLock ==
    /\ mpc = "mlock"
    /\ Acquire(Main)
    /\ mpc' = "count"
    /\ UNCHANGED <<file_paths, cancel_event, is_running, futures, pc, yielded, snapshot,
                   valid_lines_data, processed_count, progress, status, outcome,
                   opened, extracted, past_check>>
    /\ UNCHANGED not_pvars

\* a counter bumped once for the future and once more for its result
CountTwice ==
    /\ mpc = "count"
    /\ processed_count' = processed_count + 2
    /\ progress' = Append(progress, <<(processed_count + 2) * 100, total_files>>)
    /\ lock' = IF lock = Main THEN 0 ELSE lock
    /\ mpc' = "collect"
    /\ UNCHANGED <<file_paths, cancel_event, is_running, futures, pc, yielded, snapshot,
                   valid_lines_data, status, outcome, opened, extracted, past_check>>
    /\ UNCHANGED not_pvars

\* lines 508-509
Count ==
    /\ mpc = "count"
    /\ processed_count' = processed_count + 1
    /\ progress' = Append(progress, <<(processed_count + 1) * 100, total_files>>)
    /\ lock' = IF lock = Main THEN 0 ELSE lock
    /\ mpc' = "collect"
    /\ UNCHANGED <<file_paths, cancel_event, is_running, futures, pc, yielded, snapshot,
                   valid_lines_data, status, outcome, opened, extracted, past_check>>
    /\ UNCHANGED not_pvars

\* an executor left without waiting for the work items that are running
ShutdownNoWait ==
    /\ mpc = "shutdown"
    /\ is_running' = FALSE
    /\ mpc' = "done"
    /\ UNCHANGED <<file_paths, cancel_event, futures, pc, yielded, lock, snapshot,
                   valid_lines_data, processed_count, progress, status, outcome,
                   opened, extracted, past_check>>
    /\ UNCHANGED not_pvars

\* lines 491 and 511-512: leaving the executor's with block waits for every work
\* item that was not cancelled, then run returns
Shutdown ==
    /\ mpc = "shutdown"
    /\ \A f \in 1..futures : Completed(f)
    /\ is_running' = FALSE
    /\ mpc' = "done"
    /\ UNCHANGED <<file_paths, cancel_event, futures, pc, yielded, lock, snapshot,
                   valid_lines_data, processed_count, progress, status, outcome,
                   opened, extracted, past_check>>
    /\ UNCHANGED not_pvars

\* App.cancel_process: the user sets the event, at any moment of the run
SetCancel ==
    /\ ~cancel_event
    /\ mpc # "done"
    /\ cancel_event' = TRUE
    /\ past_check' = {k \in Slots : pc[k] \in {"extract", "lock", "append"}}
    /\ UNCHANGED <<file_paths, is_running, mpc, futures, pc, yielded, lock, snapshot,
                   valid_lines_data, processed_count, progress, status, outcome,
                   opened, extracted>>
    /\ UNCHANGED not_pvars

Worker(i) == Start(i) \/ Entry(i) \/ Open(i) \/ Extract(i) \/ Lock(i) \/ AppendLine(i)

PNext ==
    \/ Run
    \/ Submit
    \/ Collect
    \/ MainLock
    \/ Count
    \/ Shutdown
    \/ SetCancel
    \/ \E i \in Slots : Worker(i)

(***************************************************************************)
(* HistoryManager (history_manager.py)                                     *)
(*                                                                         *)
(* The table `problems` lives in an SQLite file.  Every operation opens a  *)
(* connection of its own; a connection's DELETE and INSERTs belong to one  *)
(* transaction that holds the database's write lock from the DELETE until  *)
(* commit or close, and close without commit rolls the transaction back.   *)
(* Month names are transliterated ("Mai" is the source's "Май").           *)
(***************************************************************************)
MONTHS == <<"Yanvar", "Fevral", "Mart", "Aprel", "Mai", "Iyun",
            "Iyul", "Avgust", "Sentyabr", "Oktyabr", "Noyabr", "Dekabr">>

\* months_map.get(m, 0)
month_num(m) ==
    IF \E k \in 1..Len(MONTHS) : MONTHS[k] = m
    THEN CHOOSE k \in 1..Len(MONTHS) : MONTHS[k] = m
    ELSE 0

\* the format spec 02d
Pad2(n) == IF n >= 0 /\ n < 10 THEN "0" \o ToString(n) ELSE ToString(n)

\* f"{y}-{month_num:02d}-{d:02d}"
date_iso(d, m, y) == ToString(y) \o "-" \o Pad2(month_num(m)) \o "-" \o Pad2(d)

\* ProblemEntry values that line records carry
EntryA == [shift |-> "DAY", time_val |-> 45, type_val |-> "Mechanical",
           formulation |-> "Belt torn", comment |-> ""]
EntryB == [shift |-> "NIGHT", time_val |-> 30, type_val |-> "Electrical",
           formulation |-> "Sensor", comment |-> "replaced"]

LineData(name, probs) == [line_name |-> name, problems |-> probs]

\* the lines_data arguments tried (save_to_history passes no empty list): a line
\* without events, one event, a line with an event beside one without, and two
\* lines that share an event
LinesInputs ==
    { << LineData("L1", <<>>) >>,
      << LineData("L1", <<EntryA>>) >>,
      << LineData("L1", <<EntryB>>), LineData("L2", <<>>) >>,
      << LineData("L1", <<EntryA, EntryB>>), LineData("L2", <<EntryA>>) >> }

\* the (d, m, y) arguments tried; "May" is no key of months_map
DateInputs == { <<5, "Mai", 2024>>, <<14, "Mai", 2024>>, <<14, "May", 2024>> }

DateKeys == {date_iso(a[1], a[2], a[3]) : a \in DateInputs}

\* the clients that call save_problems, each through connections of its own
Callers == {"c1", "c2"}

NoArgs == [lines_data |-> <<>>, d |-> 0, m |-> "", y |-> 0, id |-> 0]

HInit ==
    /\ problems = <<>>
    /\ db_lock = "free"
    /\ hpc = [c \in Callers |-> "idle"]
    /\ args = [c \in Callers |-> NoArgs]
    /\ work = [c \in Callers |-> <<>>]
    /\ count = [c \in Callers |-> 0]
    /\ ret = [c \in Callers |-> [kind |-> "none", ok |-> FALSE, count |-> 0, inserted |-> 0]]
    /\ calls = 0
    /\ latest = [k \in DateKeys |-> NoArgs]
    /\ overlap = [c \in Callers |-> {}]
    /\ replaced = FALSE
    /\ interleaved = FALSE

KeyOf(a) == date_iso(a.d, a.m, a.y)

\* a DELETE that leaves the old rows in place
DeleteNothing(table, key) == table

\* a DELETE without its WHERE clause
DeleteAll(table, key) == <<>>

\* DELETE FROM problems WHERE shift_date = ?
DeleteRows(table, key) == SelectSeq(table, LAMBDA r : r.shift_date # key)

\* the row of one INSERT (record_date, a wall-clock string nothing reads, is left
\* out; `by` is the number of the call that inserted the row, a history field)
Row(a, ld, p) ==
    [by |-> a.id, shift_date |-> KeyOf(a), shift_day |-> a.d,
     shift_month |-> month_num(a.m), shift_year |-> a.y, line_name |-> ld.line_name,
     shift_type |-> p.shift, time_val |-> p.time_val, problem_type |-> p.type_val,
     description |-> p.formulation, comment |-> p.comment]

\* for p in ld.problems: INSERT ...; count += 1
RECURSIVE InsertProblems(_, _, _, _)
InsertProblems(a, ld, k, acc) ==
    IF k > Len(ld.problems) THEN acc
    ELSE InsertProblems(a, ld, k + 1,
                        [rows |-> Append(acc.rows, Row(a, ld, ld.problems[k])),
                         count |-> acc.count + 1])

\* a loop that counts lines instead of events
RECURSIVE InsertLoopCountingLines(_, _, _)
InsertLoopCountingLines(a, k, acc) ==
    IF k > Len(a.lines_data) THEN acc
    ELSE InsertLoopCountingLines(a, k + 1,
            [rows |-> InsertProblems(a, a.lines_data[k], 1, acc).rows,
             count |-> acc.count + 1])

\* for ld in lines_data: if not ld.problems: continue; (the inner loop)
RECURSIVE InsertLoop(_, _, _)
InsertLoop(a, k, acc) ==
    IF k > Len(a.lines_data) THEN acc
    ELSE IF a.lines_data[k].problems = <<>>
         THEN InsertLoop(a, k + 1, acc)
         ELSE InsertLoop(a, k + 1, InsertProblems(a, a.lines_data[k], 1, acc))

InProgress == {c \in Callers : hpc[c] # "idle"}

\* lines 45-54: the call, the date key, sqlite3.connect (outside the try block)
Call(c) ==
    /\ hpc[c] = "idle"
    /\ calls < MaxSaves
    /\ calls' = calls + 1
    /\ \E l \in LinesInputs, dt \in DateInputs, connect_ok \in BOOLEAN :
         /\ args' = [args EXCEPT ![c] = [lines_data |-> l, d |-> dt[1], m |-> dt[2],
                                         y |-> dt[3], id |-> calls + 1]]
         /\ IF connect_ok
            THEN /\ hpc' = [hpc EXCEPT ![c] = "delete"]
                 /\ ret' = [ret EXCEPT ![c] = [kind |-> "running", ok |-> FALSE, count |-> 0, inserted |-> 0]]
                 /\ overlap' = [x \in Callers |->
                                  IF x = c THEN {args[q].id : q \in InProgress}
                                  ELSE IF x \in InProgress THEN overlap[x] \cup {calls + 1}
                                  ELSE overlap[x]]
            ELSE /\ ret' = [ret EXCEPT ![c] = [kind |-> "raised", ok |-> FALSE, count |-> 0, inserted |-> 0]]
                 /\ UNCHANGED <<hpc, overlap>>
    /\ UNCHANGED <<problems, db_lock, work, count, latest, replaced, interleaved>>
    /\ UNCHANGED not_hvars

\* line 58: the DELETE opens the transaction and takes the write lock; it fails
\* with "database is locked" when another connection keeps the lock past the
\* busy timeout, or with any other storage error
Delete(c) ==
    /\ hpc[c] = "delete"
    /\ \/ /\ db_lock = "free"
          /\ db_lock' = c
          /\ work' = [work EXCEPT ![c] = DeleteRows(problems, KeyOf(args[c]))]
          /\ hpc' = [hpc EXCEPT ![c] = "insert"]
       \/ /\ hpc' = [hpc EXCEPT ![c] = "except"]
          /\ UNCHANGED <<db_lock, work>>
    /\ UNCHANGED <<problems, args, count, ret, calls, latest, overlap, replaced,
                   interleaved>>
    /\ UNCHANGED not_hvars

\* lines 61-77: the insert loop, which an INSERT may leave by an exception after
\* n rows
Insert(c) ==
    /\ hpc[c] = "insert"
    /\ LET done == InsertLoop(args[c], 1, [rows |-> <<>>, count |-> 0]) IN
       \E n \in 0..Len(done.rows) :
         /\ work' = [work EXCEPT ![c] = @ \o SubSeq(done.rows, 1, n)]
         /\ IF n = Len(done.rows)
            THEN /\ count' = [count EXCEPT ![c] = done.count]
                 /\ hpc' = [hpc EXCEPT ![c] = "commit"]
            ELSE /\ count' = [count EXCEPT ![c] = n]
                 /\ hpc' = [hpc EXCEPT ![c] = "except"]
    /\ UNCHANGED <<problems, db_lock, args, ret, calls, latest, overlap, replaced,
                   interleaved>>
    /\ UNCHANGED not_hvars

RowsOf(table, key) == SelectSeq(table, LAMBDA r : r.shift_date = key)

\* a commit that adds the transaction's new rows to the table as it finds it
CommitMerge(c) == problems \o SelectSeq(work[c], LAMBDA r : r.by = args[c].id)

\* conn.commit(): the table becomes what the transaction made of it
CommitTable(c) == work[c]

\* lines 79-80 and 84: commit, the success return, close
Commit(c) ==
    /\ hpc[c] = "commit"
    /\ \/ /\ problems' = CommitTable(c)
          /\ db_lock' = IF db_lock = c THEN "free" ELSE db_lock
          /\ work' = [work EXCEPT ![c] = <<>>]
          /\ ret' = [ret EXCEPT ![c] = [kind |-> "returned", ok |-> TRUE,
                                        count |-> count[c],
                                        inserted |-> Len(SelectSeq(work[c],
                                                       LAMBDA r : r.by = args[c].id))]]
          /\ hpc' = [hpc EXCEPT ![c] = "idle"]
          /\ latest' = [latest EXCEPT ![KeyOf(args[c])] = args[c]]
          /\ replaced' = (\/ replaced
                          \/ /\ RowsOf(problems, KeyOf(args[c])) # <<>>
                             /\ RowsOf(work[c], KeyOf(args[c])) # <<>>
                             /\ latest[KeyOf(args[c])].lines_data # args[c].lines_data)
          /\ interleaved' = (\/ interleaved
                             \/ /\ latest[KeyOf(args[c])].id \in overlap[c]
                                /\ RowsOf(problems, KeyOf(args[c])) # <<>>
                                /\ RowsOf(work[c], KeyOf(args[c])) # <<>>)
          /\ count' = [count EXCEPT ![c] = 0]
          /\ overlap' = [overlap EXCEPT ![c] = {}]
       \/ /\ hpc' = [hpc EXCEPT ![c] = "except"]
          /\ UNCHANGED <<problems, db_lock, work, ret, latest, replaced, interleaved,
                         count, overlap>>
    /\ UNCHANGED <<args, calls>>
    /\ UNCHANGED not_hvars

\* a close that commits what the transaction did before the error
ExceptCommits(c) ==
    /\ hpc[c] = "except"
    /\ problems' = IF db_lock = c THEN work[c] ELSE problems
    /\ db_lock' = IF db_lock = c THEN "free" ELSE db_lock
    /\ work' = [work EXCEPT ![c] = <<>>]
    /\ ret' = [ret EXCEPT ![c] = [kind |-> "returned", ok |-> FALSE, count |-> 0, inserted |-> 0]]
    /\ hpc' = [hpc EXCEPT ![c] = "idle"]
    /\ count' = [count EXCEPT ![c] = 0]
    /\ overlap' = [overlap EXCEPT ![c] = {}]
    /\ UNCHANGED <<args, calls, latest, replaced, interleaved>>
    /\ UNCHANGED not_hvars

\* lines 81-84: the except clause returns (False, str(e)); close drops the
\* uncommitted transaction and its lock
Except(c) ==
    /\ hpc[c] = "except"
    /\ db_lock' = IF db_lock = c THEN "free" ELSE db_lock
    /\ work' = [work EXCEPT ![c] = <<>>]
    /\ ret' = [ret EXCEPT ![c] = [kind |-> "returned", ok |-> FALSE, count |-> 0, inserted |-> 0]]
    /\ hpc' = [hpc EXCEPT ![c] = "idle"]
    /\ count' = [count EXCEPT ![c] = 0]
    /\ overlap' = [overlap EXCEPT ![c] = {}]
    /\ UNCHANGED <<problems, args, calls, latest, replaced, interleaved>>
    /\ UNCHANGED not_hvars

RECURSIVE SumTime(_)
SumTime(rows) == IF rows = <<>> THEN 0 ELSE Head(rows).time_val + SumTime(Tail(rows))

\* a query that forgets the year in its WHERE clause
MonthStatsAnyYear(table, month, year) ==
    LET hit == SelectSeq(table, LAMBDA r : r.shift_month = month)
        days == {hit[k].shift_day : k \in 1..Len(hit)}
    IN  [dd \in days |-> SumTime(SelectSeq(hit, LAMBDA r : r.shift_day = dd))]

\* SELECT shift_day, SUM(time_val) ... WHERE shift_month = ? AND shift_year = ?
\* GROUP BY shift_day, as the dictionary {day: sum}
MonthStats(table, month, year) ==
    LET hit == SelectSeq(table, LAMBDA r : r.shift_month = month /\ r.shift_year = year)
        days == {hit[k].shift_day : k \in 1..Len(hit)}
    IN  [dd \in days |-> SumTime(SelectSeq(hit, LAMBDA r : r.shift_day = dd))]

\* insertion of r into a list sorted by time_val descending, behind its equals
RECURSIVE InsertDesc(_, _)
InsertDesc(sorted, r) ==
    IF sorted = <<>> THEN <<r>>
    ELSE IF Head(sorted).time_val >= r.time_val
         THEN <<Head(sorted)>> \o InsertDesc(Tail(sorted), r)
         ELSE <<r>> \o sorted

RECURSIVE SortDesc(_)
SortDesc(rows) ==
    IF rows = <<>> THEN <<>>
    ELSE InsertDesc(SortDesc(SubSeq(rows, 1, Len(rows) - 1)), rows[Len(rows)])

Detail(r) == <<r.line_name, r.time_val, r.problem_type, r.description, r.comment>>

\* a query that forgets the month in its WHERE clause
DayDetailsAnyMonth(table, day, month, year) ==
    LET hit == SortDesc(SelectSeq(table, LAMBDA r : /\ r.shift_day = day
                                                    /\ r.shift_year = year))
    IN  [k \in 1..Len(hit) |-> Detail(hit[k])]

\* SELECT line_name, time_val, problem_type, description, comment ... WHERE
\* shift_day = ? AND shift_month = ? AND shift_year = ? ORDER BY time_val DESC
\* (rows of equal time_val come in the order of their insertion; SQLite promises
\* no order among them)
DayDetails(table, day, month, year) ==
    LET hit == SortDesc(SelectSeq(table, LAMBDA r : /\ r.shift_day = day
                                                    /\ r.shift_month = month
                                                    /\ r.shift_year = year))
    IN  [k \in 1..Len(hit) |-> Detail(hit[k])]

\* lines 86-106: a connection of its own, one SELECT, close; the dictionary
\* MonthStats(problems, month, year) goes to the caller and nothing is written
get_month_stats ==
    /\ UNCHANGED hvars
    /\ UNCHANGED not_hvars

\* lines 108-122: a connection of its own, one SELECT, close; the list
\* DayDetails(problems, day, month, year) goes to the caller and nothing is written
get_day_details ==
    /\ UNCHANGED hvars
    /\ UNCHANGED not_hvars

save_problems(c) == Call(c) \/ Delete(c) \/ Insert(c) \/ Commit(c) \/ Except(c)

HNext ==
    \/ \E c \in Callers : save_problems(c)
    \/ get_month_stats
    \/ get_day_details

\* the pipeline at rest, for the specification of the history store alone
PIdle ==
    /\ file_paths = [k \in Slots |-> <<>>]
    /\ cancel_event = FALSE
    /\ is_running = FALSE
    /\ mpc = "call"
    /\ futures = 0
    /\ pc = [k \in Slots |-> "new"]
    /\ yielded = {}
    /\ lock = 0
    /\ snapshot = [k \in Slots |-> <<>>]
    /\ valid_lines_data = <<>>
    /\ processed_count = 0
    /\ progress = <<>>
    /\ status = [k \in Slots |-> <<>>]
    /\ outcome = [k \in Slots |-> "none"]
    /\ opened = {}
    /\ extracted = {}
    /\ past_check = {}

(***************************************************************************)
(* ExcelProcessor.process_sheet (main.py)                                  *)
(*                                                                         *)
(* A cell value is None, a number, a text or a date.  A number n is held   *)
(* as the integer 10 * n (the inputs have at most one decimal), a text as  *)
(* the sequence of its characters.  The only white space character of the  *)
(* inputs is the blank.  A text cell also carries, in field denotes, the   *)
(* number a reader takes it for; no operator of process_sheet reads that   *)
(* field.  Texts are written in ASCII ("Ne ukazan" is the source's         *)
(* 'Не указан', "DAY" and "NIGHT" are 'ДЕНЬ' and 'НОЧЬ').                  *)
(***************************************************************************)
MIN_ROW == 21
MAX_ROW == 205

NoNumber == [ok |-> FALSE, v |-> 0]
Number(v) == [ok |-> TRUE, v |-> v]

None == [t |-> "none", v |-> 0, s |-> <<>>, denotes |-> NoNumber]
Num(v) == [t |-> "num", v |-> v, s |-> <<>>, denotes |-> NoNumber]
Str(s, d) == [t |-> "str", v |-> 0, s |-> s, denotes |-> d]
Date == [t |-> "date", v |-> 0, s |-> <<>>, denotes |-> NoNumber]

\* bool(value) of a cell value, as `if val:` and `if not time_v:` take it
Truthy(val) ==
    CASE val.t = "none" -> FALSE
      [] val.t = "num" -> val.v # 0
      [] val.t = "str" -> val.s # <<>>
      [] OTHER -> TRUE

IsSpace(ch) == ch = " "

RECURSIVE LStrip(_)
LStrip(s) == IF s # <<>> /\ IsSpace(Head(s)) THEN LStrip(Tail(s)) ELSE s

RECURSIVE RStrip(_)
RStrip(s) ==
    IF s # <<>> /\ IsSpace(s[Len(s)]) THEN RStrip(SubSeq(s, 1, Len(s) - 1)) ELSE s

\* str.strip()
Strip(s) == RStrip(LStrip(s))

UPPERCASE == <<"A", "B", "C", "D", "E", "F", "G", "H", "I", "J", "K", "L", "M",
               "N", "O", "P", "Q", "R", "S", "T", "U", "V", "W", "X", "Y", "Z">>
LOWERCASE == <<"a", "b", "c", "d", "e", "f", "g", "h", "i", "j", "k", "l", "m",
               "n", "o", "p", "q", "r", "s", "t", "u", "v", "w", "x", "y", "z">>

LowerChar(ch) ==
    IF \E k \in 1..Len(UPPERCASE) : UPPERCASE[k] = ch
    THEN LOWERCASE[CHOOSE k \in 1..Len(UPPERCASE) : UPPERCASE[k] = ch]
    ELSE ch

UpperChar(ch) ==
    IF \E k \in 1..Len(LOWERCASE) : LOWERCASE[k] = ch
    THEN UPPERCASE[CHOOSE k \in 1..Len(LOWERCASE) : LOWERCASE[k] = ch]
    ELSE ch

\* str.lower()
Lower(s) == [k \in 1..Len(s) |-> LowerChar(s[k])]

\* needle in hay, for texts
Contains(hay, needle) ==
    \E off \in 0..(Len(hay) - Len(needle)) :
        SubSeq(hay, off + 1, off + Len(needle)) = needle

\* s.replace(old, new) for a one-character old; new is a text
RECURSIVE Replace(_, _, _)
Replace(s, old, new) ==
    IF s = <<>> THEN <<>>
    ELSE (IF Head(s) = old THEN new ELSE <<Head(s)>>) \o Replace(Tail(s), old, new)

\* s.split(sep) for a one-character sep
RECURSIVE Split(_, _)
Split(s, sep) ==
    IF \A k \in 1..Len(s) : s[k] # sep THEN <<s>>
    ELSE LET k == CHOOSE x \in 1..Len(s) : s[x] = sep /\ \A j \in 1..(x - 1) : s[j] # sep
         IN  <<SubSeq(s, 1, k - 1)>> \o Split(SubSeq(s, k + 1, Len(s)), sep)

DIGITS == <<"0", "1", "2", "3", "4", "5", "6", "7", "8", "9">>

IsDigit(ch) == \E k \in 1..Len(DIGITS) : DIGITS[k] = ch

DigitVal(ch) == (CHOOSE k \in 1..Len(DIGITS) : DIGITS[k] = ch) - 1

RECURSIVE DigitsVal(_)
DigitsVal(s) ==
    IF s = <<>> THEN 0 ELSE 10 * DigitsVal(SubSeq(s, 1, Len(s) - 1)) + DigitVal(s[Len(s)])

RECURSIVE DigitsOf(_)
DigitsOf(n) == IF n < 10 THEN <<DIGITS[n + 1]>> ELSE DigitsOf(n \div 10) \o <<DIGITS[(n % 10) + 1]>>

\* float(s) of a text: an optional sign, digits, an optional point and digits,
\* at least one digit in all; anything else raises ValueError (ok = FALSE).
\* The result is in tenths; the inputs have no text with more than one decimal
\* and none of the words (inf, nan, exponents, underscores) float also reads.
ParseFloat(s) ==
    LET signed == s # <<>> /\ Head(s) \in {"-", "+"}
        body == IF signed THEN Tail(s) ELSE s
        parts == Split(body, ".")
        int == parts[1]
        frac == IF Len(parts) > 1 THEN parts[2] ELSE <<>>
        wellformed == /\ Len(parts) <= 2
                      /\ Len(int) + Len(frac) >= 1
                      /\ Len(frac) <= 1
                      /\ \A k \in 1..Len(int) : IsDigit(int[k])
                      /\ \A k \in 1..Len(frac) : IsDigit(frac[k])
        magnitude == 10 * DigitsVal(int) + DigitsVal(frac)
    IN  IF ~wellformed THEN NoNumber
        ELSE Number(IF signed /\ Head(s) = "-" THEN 0 - magnitude ELSE magnitude)

\* val.replace(',', '.').replace(' ', '')
CleanNumberText(s) == Replace(Replace(s, ",", <<".">>), " ", <<>>)

\* lines 395-396 and 373-374: the number of a cell value that is not falsy;
\* float() of a date raises TypeError
ToFloat(val) ==
    CASE val.t = "str" -> ParseFloat(CleanNumberText(val.s))
      [] val.t = "num" -> Number(val.v)
      [] OTHER -> NoNumber

\* str(value) of a cell value: an integer prints its digits, another number
\* its digits, a point and its decimal
StrOf(val) ==
    CASE val.t = "str" -> val.s
      [] val.t = "num" ->
            LET a == IF val.v < 0 THEN 0 - val.v ELSE val.v
                sign == IF val.v < 0 THEN <<"-">> ELSE <<>>
            IN  IF a % 10 = 0 THEN sign \o DigitsOf(a \div 10)
                ELSE sign \o DigitsOf(a \div 10) \o <<".">> \o DigitsOf(a % 10)
      [] val.t = "date" -> <<"2", "0", "2", "4", "-", "0", "5", "-", "1", "4", " ",
                             "0", "0", ":", "0", "0", ":", "0", "0">>
      [] OTHER -> <<"N", "o", "n", "e">>

\* " ".join(s.split())
RECURSIVE Collapse(_)
Collapse(s) ==
    LET t == LStrip(s)
        n == IF \E k \in 1..Len(t) : IsSpace(t[k])
             THEN CHOOSE k \in 1..Len(t) : IsSpace(t[k]) /\ \A j \in 1..(k - 1) : ~IsSpace(t[j])
             ELSE Len(t) + 1
        rest == Collapse(SubSeq(t, n, Len(t)))
    IN  IF t = <<>> THEN <<>>
        ELSE IF rest = <<>> THEN SubSeq(t, 1, n - 1)
        ELSE SubSeq(t, 1, n - 1) \o <<" ">> \o rest

\* ProblemEntry._clean_text
clean_text(text) ==
    IF ~Truthy(text) THEN <<>>
    ELSE LET s == Collapse(StrOf(text))
         IN  IF s # <<>> THEN <<UpperChar(s[1])>> \o Tail(s) ELSE <<>>

\* ProblemEntry(filename, sheet, shift, time_val, type_val, formulation, comment);
\* type_val is a text here, comment a cell value or the text "" (as None);
\* row is the sheet row the entry was read from (history field)
ProblemEntry(shift, time_val, type_val, formulation, comment, row) ==
    [shift |-> shift,
     time_val |-> time_val,
     type_val |-> IF type_val # <<>> THEN Strip(type_val)
                  ELSE <<"N", "e", " ", "u", "k", "a", "z", "a", "n">>,
     formulation |-> clean_text(formulation),
     comment |-> clean_text(comment),
     row |-> row]

\* a row of 13 values, None where nothing is written
BlankRow == [k \in 1..13 |-> None]

\* row_data[i] for the 0-based index i of the source
At(row_data, i) == row_data[i + 1]

\* line 421: [x.strip() for x in exclude_str.split(',') if x.strip()]
ExcludedList(str) ==
    LET pieces == Split(str, ",")
        trimmed == [k \in 1..Len(pieces) |-> Strip(pieces[k])]
    IN  SelectSeq(trimmed, LAMBDA x : x # <<>>)

\* lines 345-347
Keep(row_idx) ==
    \/ (21 <= row_idx /\ row_idx <= 42) \/ (136 <= row_idx /\ row_idx <= 158)
    \/ (47 <= row_idx /\ row_idx <= 113) \/ (162 <= row_idx /\ row_idx <= 205)

\* the values iter_rows yields for row row_idx: 13 of them for every row
RowValues(cells, row_idx) ==
    IF row_idx \in DOMAIN cells THEN cells[row_idx] ELSE BlankRow

\* data_cache.get(r); <<>> stands for None
data_cache_get(cells, r) ==
    IF MIN_ROW <= r /\ r <= MAX_ROW /\ Keep(r) THEN RowValues(cells, r) ELSE <<>>

\* an emptiness test that takes a text of blanks for content
CellIsBlankUnstripped(val) == val.t = "none" \/ (val.t = "str" /\ val.s = <<>>)

\* line 359, negated: val is None or str(val).strip() == ""
CellIsBlank(val) == val.t = "none" \/ Strip(StrOf(val)) = <<>>

\* a check that takes the end of the range in
is_range_empty_inclusive(cells, lo, hi) ==
    \A r \in lo..hi :
        LET row_data == data_cache_get(cells, r)
            val == IF row_data # <<>> /\ Len(row_data) > 0 THEN At(row_data, 0) ELSE None
        IN  CellIsBlank(val)

\* lines 354-360, rows being range(lo, hi)
is_range_empty(cells, lo, hi) ==
    \A r \in lo..(hi - 1) :
        LET row_data == data_cache_get(cells, r)
            val == IF row_data # <<>> /\ Len(row_data) > 0 THEN At(row_data, 0) ELSE None
        IN  CellIsBlank(val)

\* what one summary cell adds to total (lines 372-375)
Contribution(val) ==
    IF ~Truthy(val) THEN 0
    ELSE IF ToFloat(val).ok THEN ToFloat(val).v ELSE 0

\* a summation that takes every row of the range, not every second one
RECURSIVE sum_vals_every_row(_, _, _, _, _)
sum_vals_every_row(cells, lo, hi, step, col_idx) ==
    IF lo >= hi THEN 0
    ELSE LET row_data == data_cache_get(cells, lo)
         IN  (IF row_data # <<>> /\ Len(row_data) > col_idx
              THEN Contribution(At(row_data, col_idx)) ELSE 0)
             + sum_vals_every_row(cells, lo + 1, hi, step, col_idx)

\* lines 366-376, rows being range(lo, hi, step)
RECURSIVE sum_vals(_, _, _, _, _)
sum_vals(cells, lo, hi, step, col_idx) ==
    IF lo >= hi THEN 0
    ELSE LET row_data == data_cache_get(cells, lo)
         IN  (IF row_data # <<>> /\ Len(row_data) > col_idx
              THEN Contribution(At(row_data, col_idx)) ELSE 0)
             + sum_vals(cells, lo + step, hi, step, col_idx)

\* a threshold test that lets every duration pass
NeverBelow(time_v, threshold) == FALSE

\* line 398: time_v < min_minutes_threshold, time_v in tenths of a minute
BelowThreshold(time_v, threshold) == time_v < 10 * threshold

\* an exclusion test that compares the letters as they are written
IsExcludedCaseSensitive(type_v, excluded_list) ==
    \E k \in 1..Len(excluded_list) : Contains(type_v, excluded_list[k])

\* line 402: any(ex.lower() in type_v.lower() for ex in excluded_list)
IsExcluded(type_v, excluded_list) ==
    \E k \in 1..Len(excluded_list) : Contains(Lower(type_v), Lower(excluded_list[k]))

\* lines 390-409: what the loop body of get_problems does with row r.
\* kind is "event" (an entry is appended), "skip" (a continue) or "fail" (an
\* exception, swallowed by the bare except)
RowOutcome(cells, r, shift, threshold, excluded_list) ==
    LET row_data == data_cache_get(cells, r)
        skip == [kind |-> "skip", entry |-> <<>>]
        fail == [kind |-> "fail", entry |-> <<>>]
    IN  IF row_data = <<>> THEN skip
        ELSE IF Len(row_data) <= 10 THEN fail
        ELSE LET time_v == At(row_data, 10)
                 type_c == At(row_data, 7)
                 type_v == IF Truthy(type_c) THEN Strip(StrOf(type_c)) ELSE <<>>
                 comment_v == IF Len(row_data) > 11 THEN At(row_data, 11) ELSE None
             IN  IF ~Truthy(time_v) THEN skip
                 ELSE IF ~ToFloat(time_v).ok THEN fail
                 ELSE IF BelowThreshold(ToFloat(time_v).v, threshold) THEN skip
                 ELSE IF IsExcluded(type_v, excluded_list) THEN skip
                 ELSE [kind |-> "event",
                       entry |-> ProblemEntry(shift, ToFloat(time_v).v, type_v,
                                              At(row_data, 5), comment_v, r)]

\* the outcomes of the rows of range(lo, hi), in order
Outcomes(cells, lo, hi, shift, threshold, excluded_list) ==
    [k \in 1..(hi - lo) |-> RowOutcome(cells, lo + k - 1, shift, threshold, excluded_list)]

\* a scan that gives up at the first row that raises
get_problems_until_failure(cells, lo, hi, shift, threshold, excluded_list) ==
    LET all == Outcomes(cells, lo, hi, shift, threshold, excluded_list)
        n == IF \E k \in 1..Len(all) : all[k].kind = "fail"
             THEN (CHOOSE k \in 1..Len(all) :
                      all[k].kind = "fail" /\ \A j \in 1..(k - 1) : all[j].kind # "fail") - 1
             ELSE Len(all)
        events == SelectSeq(SubSeq(all, 1, n), LAMBDA o : o.kind = "event")
    IN  [k \in 1..Len(events) |-> events[k].entry]

\* lines 387-410, rows being range(lo, hi): the entries of the rows that give
\* one, in row order; a row that raises is passed over like one that is skipped
get_problems(cells, lo, hi, shift, threshold, excluded_list) ==
    LET events == SelectSeq(Outcomes(cells, lo, hi, shift, threshold, excluded_list),
                            LAMBDA o : o.kind = "event")
    IN  [k \in 1..Len(events) |-> events[k].entry]

\* lines 412-414: the entries of the day range, then those of the night range
AllProblems(cells, threshold, excluded_list) ==
    get_problems(cells, 47, 114, "DAY", threshold, excluded_list)
        \o get_problems(cells, 162, 206, "NIGHT", threshold, excluded_list)

\* the first two entries in sheet order
FirstTwoUnsorted(entries) == SubSeq(entries, 1, IF Len(entries) < 2 THEN Len(entries) ELSE 2)

\* lines 415-417: problems.sort(key=time_val, reverse=True), a stable sort, and
\* the slice problems[:2]
SortAndSlice(entries) ==
    SubSeq(SortDesc(entries), 1, IF Len(entries) < 2 THEN Len(entries) ELSE 2)

\* lines 362-363; is_valid FALSE stands for None, msg "empty" for 'Лист пустой'
EmptySheetResult ==
    [is_valid |-> FALSE, problems |-> <<>>, plan |-> 0, fact |-> 0, msg |-> "empty",
     ran |-> {"is_range_empty"}, scanned |-> <<>>]

\* line 351; msg "read error" stands for 'Ошибка чтения: ...'
ReadErrorResult ==
    [is_valid |-> FALSE, problems |-> <<>>, plan |-> 0, fact |-> 0, msg |-> "read error",
     ran |-> {}, scanned |-> <<>>]

\* process_sheet, lines 339-417; read_fails: iter_rows raises.  Field ran names
\* the inner functions that were called, field scanned is the list problems
\* before the sort (history fields).
process_sheet(cells, threshold, excluded_list, read_fails) ==
    IF read_fails THEN ReadErrorResult
    ELSE IF is_range_empty(cells, 37, 43) /\ is_range_empty(cells, 152, 158)
    THEN EmptySheetResult
    ELSE [is_valid |-> TRUE,
          problems |-> SortAndSlice(AllProblems(cells, threshold, excluded_list)),
          plan |-> sum_vals(cells, 21, 33, 2, 9) + sum_vals(cells, 136, 148, 2, 9),
          fact |-> sum_vals(cells, 21, 33, 2, 10) + sum_vals(cells, 136, 148, 2, 10),
          msg |-> "OK",
          ran |-> {"is_range_empty", "sum_vals", "get_problems"},
          scanned |-> AllProblems(cells, threshold, excluded_list)]

\* a sheet row with values in the columns process_sheet reads (1-based: 1 the
\* first column, 6 the description, 8 the category, 10 the plan, 11 the fact of
\* a summary row and the duration of a detail row, 12 the comment)
SheetRow(first, description, category, plan, duration, comment) ==
    [k \in 1..13 |-> CASE k = 1 -> first
                       [] k = 6 -> description
                       [] k = 8 -> category
                       [] k = 10 -> plan
                       [] k = 11 -> duration
                       [] k = 12 -> comment
                       [] OTHER -> None]

\* the detail rows written into sheets, as <<row, values>>: durations above, at
\* and below the threshold 10, a zero, texts with a comma, a text "0", a text
\* that is no number, a date, a category that holds an exclusion term in other
\* letter case, and a row between the two ranges
DetailInputs ==
    { <<47, SheetRow(None, Str(<<" ", "b", "e", "l", "t", " ", " ", "t", "o", "r", "n", " ">>, NoNumber), Str(<<"M", "e", "c", "h">>, NoNumber), None, Num(450), None)>>,
      <<47, SheetRow(None, Str(<<"l", "u", "n", "c", "h">>, NoNumber), Str(<<" ", "B", "R", "E", "A", "K", " ", "l", "o", "n", "g">>, NoNumber), None, Num(600), Str(<<"l", "a", "t", "e">>, NoNumber))>>,
      <<47, SheetRow(None, Str(<<"i", "d", "l", "e">>, NoNumber), Str(<<"M", "e", "c", "h">>, NoNumber), None, Str(<<"0">>, Number(0)), None)>>,
      <<113, SheetRow(None, Str(<<"j", "a", "m">>, NoNumber), None, None, Str(<<"1", "2", ",", "5">>, Number(125)), None)>>,
      <<113, SheetRow(None, Str(<<"j", "a", "m">>, NoNumber), Str(<<"M", "e", "c", "h">>, NoNumber), None, Str(<<"a", "b", "c">>, NoNumber), None)>>,
      <<113, SheetRow(None, Str(<<"j", "a", "m">>, NoNumber), Str(<<"M", "e", "c", "h">>, NoNumber), None, Num(50), None)>>,
      <<162, SheetRow(None, Str(<<"f", "u", "s", "e">>, NoNumber), Str(<<"E", "l", "e", "c">>, NoNumber), None, Num(300), None)>>,
      <<162, SheetRow(None, Str(<<"f", "u", "s", "e">>, NoNumber), Str(<<"M", "e", "c", "h">>, NoNumber), None, Num(100), None)>>,
      <<162, SheetRow(None, Str(<<"f", "u", "s", "e">>, NoNumber), Str(<<"M", "e", "c", "h">>, NoNumber), None, Date, None)>>,
      <<205, SheetRow(None, Str(<<"m", "o", "t", "o", "r">>, NoNumber), Str(<<"E", "l", "e", "c">>, NoNumber), None, Num(450), None)>>,
      <<205, SheetRow(None, Str(<<"m", "o", "t", "o", "r">>, NoNumber), Str(<<"M", "e", "c", "h">>, NoNumber), None, Num(0), None)>>,
      <<114, SheetRow(None, Str(<<"n", "o", "t", "e">>, NoNumber), Str(<<"M", "e", "c", "h">>, NoNumber), None, Num(990), None)>> }

\* the summary rows written into sheets, as <<row, values>>: plan and fact as
\* numbers, as texts with blanks and a comma, as a text that is no number, as
\* a date; a row that range(21, 33, 2) steps over; first columns with a name,
\* with blanks only, with a number, and a name in a row the emptiness test
\* does not read
SummaryInputs ==
    { <<21, SheetRow(None, None, None, Num(1000), Num(900), None)>>,
      <<22, SheetRow(None, None, None, Num(70), Num(70), None)>>,
      <<31, SheetRow(None, None, None, Str(<<" ">>, NoNumber), None, None)>>,
      <<136, SheetRow(None, None, None, Str(<<"1", " ", "0", "0", "0", ",", "5">>, Number(10005)), Str(<<"a", "b", "c">>, NoNumber), None)>>,
      <<146, SheetRow(None, None, None, Date, Str(<<"7", ",", "5">>, Number(75)), None)>>,
      <<37, SheetRow(Str(<<"I", "v", "a", "n", "o", "v">>, NoNumber), None, None, None, None, None)>>,
      <<152, SheetRow(Str(<<" ", " ">>, NoNumber), None, None, None, None, None)>>,
      <<157, SheetRow(Num(7), None, None, None, None, None)>>,
      <<158, SheetRow(Str(<<"O", "p">>, NoNumber), None, None, None, None, None)>>,
      <<36, SheetRow(Str(<<"O", "p">>, NoNumber), None, None, None, None, None)>>,
      <<151, SheetRow(Num(7), None, None, None, None, None)>> }

RowInputs == DetailInputs \cup SummaryInputs

\* the thresholds tried: run_process passes int(self.min_time.get()), or 0 when
\* that fails
ThresholdInputs == {0, 10}

\* the exclusion strings tried: none, and two terms with blanks and an empty piece
ExcludeInputs == { <<>>, <<" ", "B", "r", "e", "a", "k", " ", ",", ",", "s", "t", "o", "p">> }

NoResult ==
    [is_valid |-> FALSE, problems |-> <<>>, plan |-> 0, fact |-> 0, msg |-> "none",
     ran |-> {}, scanned |-> <<>>]

\* no sheet is being processed
SIdle ==
    /\ sheet = <<>>
    /\ min_minutes_threshold = 0
    /\ exclude_str = <<>>
    /\ sheet_result = NoResult

\* a worksheet about to be filled, and the settings of the run
SInit ==
    /\ sheet = <<>>
    /\ min_minutes_threshold \in ThresholdInputs
    /\ exclude_str \in ExcludeInputs
    /\ sheet_result = NoResult

\* the worksheet as the operators filled it before the run: one more row
PutRow(in) ==
    /\ sheet_result = NoResult
    /\ in[1] \notin DOMAIN sheet
    /\ Cardinality(DOMAIN sheet) < MaxRows
    /\ sheet' = sheet @@ (in[1] :> in[2])
    /\ UNCHANGED <<min_minutes_threshold, exclude_str, sheet_result>>
    /\ UNCHANGED not_svars

\* process_one, line 466: self.process_sheet(ws, sheet_name, fname, min_downtime,
\* excluded_list)
ProcessSheet ==
    /\ sheet_result = NoResult
    /\ \E read_fails \in BOOLEAN :
          sheet_result' = process_sheet(sheet, min_minutes_threshold,
                                        ExcludedList(exclude_str), read_fails)
    /\ UNCHANGED <<sheet, min_minutes_threshold, exclude_str>>
    /\ UNCHANGED not_svars

SNext ==
    \/ \E in \in RowInputs : PutRow(in)
    \/ ProcessSheet

(***************************************************************************)
(* _sanitize_sheet_name (main.py)                                          *)
(*                                                                         *)
(* A line name is a sequence of characters.  The function is applied to a  *)
(* name and then to its own result.                                        *)
(***************************************************************************)
\* line 160: the length name[:31] cuts to
SHEET_NAME_LEN == 31

\* line 161: the characters replaced, in the order of the loop
ILLEGAL == <<"\\", "/", "*", "?", ":", "[", "]">>

\* lines 161-162: safe_name = safe_name.replace(ch, '_') for each ch in turn
RECURSIVE ReplaceEach(_, _)
ReplaceEach(s, chars) ==
    IF chars = <<>> THEN s
    ELSE ReplaceEach(Replace(s, Head(chars), <<"_">>), Tail(chars))

\* the replacements without the cut of line 160
sanitize_sheet_name_uncut(name) == ReplaceEach(name, ILLEGAL)

\* lines 159-163
sanitize_sheet_name(name) ==
    LET cut == SubSeq(name, 1, IF Len(name) < SHEET_NAME_LEN THEN Len(name)
                                                              ELSE SHEET_NAME_LEN)
    IN  ReplaceEach(cut, ILLEGAL)

\* k plain characters
Fill(k) == [i \in 1..k |-> "a"]

\* the parts of a name that matter to the function: every replaced character,
\* two of them side by side, brackets around a letter, and the replacement
\* character itself
Kernels ==
    {<< >>, <<"_">>, <<"/", "/">>, <<"[", "x", "]">>}
    \cup {<<ILLEGAL[i]>> : i \in 1..Len(ILLEGAL)}

\* names shorter than, as long as and longer than the cut, with the kernel
\* before, across and after position 31
NameInputs ==
    {Fill(k) \o kern \o Fill(m) : k \in 0..MaxPad, kern \in Kernels, m \in 0..1}

NIdle ==
    /\ line_name = << >>
    /\ safe_name = << >>
    /\ safe_again = << >>
    /\ npc = "idle"

NInit ==
    /\ line_name \in NameInputs
    /\ safe_name = << >>
    /\ safe_again = << >>
    /\ npc = "call"

\* _sanitize_sheet_name(line_name)
Sanitize ==
    /\ npc = "call"
    /\ safe_name' = sanitize_sheet_name(line_name)
    /\ npc' = "once"
    /\ UNCHANGED <<line_name, safe_again>>
    /\ UNCHANGED not_nvars

\* _sanitize_sheet_name applied to the name it returned
SanitizeAgain ==
    /\ npc = "once"
    /\ safe_again' = sanitize_sheet_name(safe_name)
    /\ npc' = "twice"
    /\ UNCHANGED <<line_name, safe_name>>
    /\ UNCHANGED not_nvars

NNext ==
    \/ Sanitize
    \/ SanitizeAgain

(***************************************************************************)
(* SummaryFrame: adding, editing and deleting the events of a line         *)
(* (main.py)                                                               *)
(*                                                                         *)
(* One line is followed.  An event is its time_val and its formulation;    *)
(* a row of the table shows both.  The text of a time field is held as the *)
(* number it denotes.                                                      *)
(***************************************************************************)
\* the durations and descriptions the user may type
TimeInputs == {1, 2, 3}
DescInputs == {"a", "b"}
EventInputs == [time_val : TimeInputs, formulation : DescInputs]

\* line 417: what process_sheet hands over, problems[:2] of the sorted list
IngestedInputs ==
    {<< >>} \cup {<<e>> : e \in EventInputs}
    \cup {two \in {<<e, f>> : e \in EventInputs, f \in EventInputs} :
             two[1].time_val >= two[2].time_val}

\* one step of a stable sort by time_val, largest first: x goes behind the
\* events that are not shorter
InsertByTime(sorted, x) ==
    LET ahead == Cardinality({p \in 1..Len(sorted) : sorted[p].time_val >= x.time_val})
    IN  SubSeq(sorted, 1, ahead) \o <<x>> \o SubSeq(sorted, ahead + 1, Len(sorted))

\* line 879: ld.problems.sort(key=lambda x: x.time_val, reverse=True)
RECURSIVE SortByTime(_)
SortByTime(events) ==
    IF events = << >> THEN << >>
    ELSE InsertByTime(SortByTime(SubSeq(events, 1, Len(events) - 1)),
                      events[Len(events)])

\* the position of the first event whose time_val is the one the row shows
\* (lines 760-761), 0 when there is none
FirstWithTime(events, t) ==
    IF \E p \in 1..Len(events) : events[p].time_val = t
    THEN CHOOSE p \in 1..Len(events) :
            /\ events[p].time_val = t
            /\ \A q \in 1..(p - 1) : events[q].time_val # t
    ELSE 0

\* the sequence without its k-th element
RemoveAt(rows, k) == SubSeq(rows, 1, k - 1) \o SubSeq(rows, k + 1, Len(rows))

EIdle ==
    /\ ld_problems = << >>
    /\ tree = << >>

\* lines 630-631: set_data keeps the records of the run and fills the table
EInit ==
    /\ ld_problems \in IngestedInputs
    /\ tree = ld_problems

\* lines 858-885: the new event is appended, the list sorted, the table filled
\* anew (lines 634-648)
add_new(time_val, desc_val) ==
    /\ Len(ld_problems) < MaxEvents
    /\ time_val > 0
    /\ ld_problems' = SortByTime(Append(ld_problems,
                                        [time_val |-> time_val, formulation |-> desc_val]))
    /\ tree' = ld_problems'
    /\ UNCHANGED not_evars

\* what the user may type into the time field of the edit window: a duration,
\* or a text float() rejects, for which -1 stands
EditTimeInputs == TimeInputs \cup {-1}

\* lines 741-773: a time that is no number ends the handler after the warning
\* (lines 748-752); otherwise the row takes the new values, and the first event
\* of the line whose time_val is the one the row showed takes them as well
save_changes(item, new_time, new_desc) ==
    /\ item \in 1..Len(tree)
    /\ IF new_time \notin TimeInputs
       THEN UNCHANGED <<tree, ld_problems>>
       ELSE /\ tree' = [tree EXCEPT
                           ![item] = [time_val |-> new_time, formulation |-> new_desc]]
            /\ LET p == FirstWithTime(ld_problems, tree[item].time_val)
               IN  ld_problems' =
                      IF p = 0 THEN ld_problems
                      ELSE [ld_problems EXCEPT
                               ![p] = [time_val |-> new_time, formulation |-> new_desc]]
    /\ UNCHANGED not_evars

\* lines 890-910: every event of the line with the time and the description
\* of the row goes, and the row
delete_selected(item) ==
    /\ item \in 1..Len(tree)
    /\ ld_problems' = SelectSeq(ld_problems,
                                LAMBDA e : ~(e.time_val = tree[item].time_val
                                             /\ e.formulation = tree[item].formulation))
    /\ tree' = RemoveAt(tree, item)
    /\ UNCHANGED not_evars

ENext ==
    \/ \E t \in TimeInputs, d \in DescInputs : add_new(t, d)
    \/ \E k \in 1..MaxEvents, t \in EditTimeInputs, d \in DescInputs : save_changes(k, t, d)
    \/ \E k \in 1..MaxEvents : delete_selected(k)

(***************************************************************************)
(* App and SummaryFrame: the date of the run and the date of the save      *)
(* (main.py)                                                               *)
(*                                                                         *)
(* The month and the year are read the same way as the day and are left    *)
(* fixed here.  A day of the history holds the rows of one save; what is   *)
(* kept of them is the day they were extracted for.                        *)
(***************************************************************************)
\* the texts of the day field tried: two days, and one that is no number
DayInputs == {"5", "14", "x"}

\* lines 1283-1293: int(self.day.get()), 1 when that fails
get_selected_date(text) ==
    CASE text = "5" -> 5
      [] text = "14" -> 14
      [] OTHER -> 1

HistoryDays == {get_selected_date(t) : t \in DayInputs}

AIdle ==
    /\ ui_day = "5"
    /\ run_day = 0
    /\ data_day = 0
    /\ stored = [d \in HistoryDays |-> 0]

AInit ==
    /\ ui_day \in DayInputs
    /\ run_day = 0
    /\ data_day = 0
    /\ stored = [d \in HistoryDays |-> 0]

\* the user types into the day field; nothing else reads it at that moment
SelectDay(text) ==
    /\ ui_day' = text
    /\ UNCHANGED <<run_day, data_day, stored>>
    /\ UNCHANGED not_avars

\* lines 1295-1312: the run button is off while a run is in flight; the date is
\* read once and handed to the worker thread
run_process ==
    /\ run_day = 0
    /\ run_day' = get_selected_date(ui_day)
    /\ UNCHANGED <<ui_day, data_day, stored>>
    /\ UNCHANGED not_avars

\* lines 1322-1327 and 629-630: the worker hands over what ExcelProcessor.run
\* returned for that date, which may be no line at all
finish ==
    /\ run_day # 0
    /\ \E has_lines \in BOOLEAN : data_day' = IF has_lines THEN run_day ELSE 0
    /\ run_day' = 0
    /\ UNCHANGED <<ui_day, stored>>
    /\ UNCHANGED not_avars

\* lines 919-928: nothing is saved without lines; the date is read from the
\* window anew and save_problems replaces the rows of that date
save_to_history ==
    /\ data_day # 0
    /\ stored' = [stored EXCEPT ![get_selected_date(ui_day)] = data_day]
    /\ UNCHANGED <<ui_day, run_day, data_day>>
    /\ UNCHANGED not_avars

ANext ==
    \/ \E text \in DayInputs : SelectDay(text)
    \/ run_process
    \/ finish
    \/ save_to_history

(***************************************************************************)
(* copy_sheets_with_fallback, copy_sheets_fast, copy_sheets_openpyxl and   *)
(* retry_on_failure (main.py)                                              *)
(*                                                                         *)
(* Both copy_sheets_fast and copy_sheets_with_fallback carry the decorator *)
(* retry_on_failure(max_attempts=3, base_delay=1): the wrapper of the      *)
(* former runs inside the body of the latter, whose own wrapper is the     *)
(* function App calls.  A line of lines_data is held as what copying it    *)
(* meets: "ok", "no_sheet" (the source has no sheet of that name) or       *)
(* "unreadable" (the source cannot be opened).  Excel and the file system  *)
(* may fail at any call; the model lets Excel fail when the host is        *)
(* started and when the workbook is saved.                                 *)
(***************************************************************************)
max_attempts == 3
base_delay == 1

\* the lines_data arguments tried
ExportInputs ==
    { << >>, <<"ok">>, <<"no_sheet">>, <<"ok", "ok">>, <<"ok", "no_sheet">>,
      <<"unreadable", "ok">> }

\* the line names tried for n lines: different names, names that differ only
\* in a character that is replaced, and the same name twice (line 445 takes
\* the name from the file name without its directory)
ExportNameInputs(n) ==
    CASE n = 0 -> { << >> }
      [] n = 1 -> { << <<"L", "1">> >>, << <<"L", "/">> >> }
      [] OTHER -> { << <<"L", "1">>, <<"L", "2">> >>,
                    << <<"L", "/">>, <<"L", "_">> >>,
                    << <<"L", "1">>, <<"L", "1">> >> }

\* line 427: the sheet_name of every line is the day of the report
sheet_name == <<"1", "5">>

\* whether a sheet of the workbook has the title
TitleTaken(wb, title) == \E p \in 1..Len(wb) : wb[p].title = title

\* lines 201-204: Copy puts the sheet into the workbook under the name it has
\* in the source; Excel raises when Name is assigned a name another sheet of
\* the workbook has, and the sheet keeps the name it came with (the except of
\* line 205 catches the error)
ExcelTitle(wb, title) == IF TitleTaken(wb, title) THEN sheet_name ELSE title

\* line 260: openpyxl's create_sheet gives a title that is taken a number at
\* its end
OpenpyxlTitle(wb, title) == IF TitleTaken(wb, title) THEN title \o <<"1">> ELSE title

NoExc == [type |-> "none", attempt |-> 0]

NoReturn == [kind |-> "none", sheets_count |-> 0, mode |-> "none", exc |-> NoExc]

\* no export is being made
CIdle ==
    /\ HAS_WIN32COM = FALSE
    /\ dest = "absent"
    /\ export_lines = <<>>
    /\ cpc = "idle"
    /\ outer_attempt = 0
    /\ attempt = 0
    /\ idx = 0
    /\ copied = 0
    /\ last_progress = 0
    /\ exc = NoExc
    /\ fast_log = <<>>
    /\ fast_calls = 0
    /\ slept = 0
    /\ export_ret = NoReturn
    /\ strategy_log = <<>>
    /\ excel_hosts = 0
    /\ progress_log = << >>
    /\ export_names = << >>
    /\ new_wb = << >>
    /\ other_excel = FALSE

\* before the call copy_sheets_with_fallback(lines_data, save_path, ...)
CInit ==
    /\ HAS_WIN32COM \in BOOLEAN
    /\ dest \in {"absent", "present", "locked"}
    /\ export_lines \in ExportInputs
    /\ cpc = "idle"
    /\ outer_attempt = 0
    /\ attempt = 0
    /\ idx = 0
    /\ copied = 0
    /\ last_progress = 0
    /\ exc = NoExc
    /\ fast_log = <<>>
    /\ fast_calls = 0
    /\ slept = 0
    /\ export_ret = NoReturn
    /\ strategy_log = <<>>
    /\ excel_hosts = 0
    /\ progress_log = << >>
    /\ export_names \in ExportNameInputs(Len(export_lines))
    /\ new_wb = << >>
    /\ other_excel \in BOOLEAN

\* an entry of strategy_log: who ("fast", "portable", "inner" or "outer" for the
\* wrappers), what it did, and the type of the exception if it ended in one
StrategyRun(who, what, type) == [who |-> who, what |-> what, exc |-> type]

Event(ev, n, delay, e) == [ev |-> ev, attempt |-> n, delay |-> delay, exc |-> e]

RECURSIVE Pow2(_)
Pow2(n) == IF n = 0 THEN 1 ELSE 2 * Pow2(n - 1)

\* a delay that doubles from 2
BackoffFromTwo(k) == base_delay * Pow2(k)

\* line 155: base_delay * (2 ** (attempt - 1))
Backoff(k) == base_delay * Pow2(k - 1)

\* an interpolation that runs to the end of the scale
LineProgressTo100(i, total) == 10 + ((90 * (i + 1)) \div total)

\* lines 211-212 and 283-284: 10 + int(80 * (idx + 1) / total), i the idx of the
\* line just handled
LineProgress(i, total) == 10 + ((80 * (i + 1)) \div total)

\* the call of the decorated copy_sheets_with_fallback: its wrapper starts the
\* loop of line 145 with attempt 1
CallExport ==
    /\ cpc = "idle"
    /\ outer_attempt' = 1
    /\ cpc' = "outer_loop"
    /\ UNCHANGED <<HAS_WIN32COM, dest, export_lines, attempt, idx, copied, last_progress,
                   exc, fast_log, fast_calls, slept, export_ret,
                   strategy_log,
                   excel_hosts,
                   progress_log,
                   export_names,
                   new_wb,
                   other_excel>>
    /\ UNCHANGED not_cvars

\* the outer wrapper, line 149: the body of copy_sheets_with_fallback is entered
\* and calls the decorated copy_sheets_fast (line 298), whose wrapper starts its
\* own loop with attempt 1
OuterTry ==
    /\ cpc = "outer_loop"
    /\ attempt' = 1
    /\ fast_log' = <<>>
    /\ cpc' = "inner_loop"
    /\ UNCHANGED <<HAS_WIN32COM, dest, export_lines, outer_attempt, idx, copied,
                   last_progress, exc, fast_calls, slept, export_ret,
                   strategy_log,
                   excel_hosts,
                   progress_log,
                   export_names,
                   new_wb,
                   other_excel>>
    /\ UNCHANGED not_cvars

\* the inner wrapper, line 149: copy_sheets_fast itself is invoked
InnerTry ==
    /\ cpc = "inner_loop"
    /\ fast_log' = Append(fast_log, Event("invoke", attempt, 0, NoExc))
    /\ fast_calls' = fast_calls + 1
    /\ cpc' = "fast_check"
    /\ UNCHANGED <<HAS_WIN32COM, dest, export_lines, outer_attempt, attempt, idx, copied,
                   last_progress, exc, slept, export_ret,
                   strategy_log,
                   excel_hosts,
                   progress_log,
                   export_names,
                   new_wb,
                   other_excel>>
    /\ UNCHANGED not_cvars

\* copy_sheets_fast, lines 173-187: the import check, the removal of an existing
\* destination, progress 5
FastCheck ==
    /\ cpc = "fast_check"
    /\ IF ~HAS_WIN32COM
       THEN /\ exc' = [type |-> "ImportError", attempt |-> attempt]
            /\ cpc' = "inner_except"
            /\ UNCHANGED <<dest, last_progress, progress_log>>
       ELSE IF dest = "locked"
       THEN /\ exc' = [type |-> "PermissionError", attempt |-> attempt]
            /\ cpc' = "inner_except"
            /\ UNCHANGED <<dest, last_progress, progress_log>>
       ELSE /\ dest' = "absent"
            /\ last_progress' = 5
            /\ progress_log' = Append(progress_log, 5)
            /\ cpc' = "fast_enter"
            /\ UNCHANGED exc
    /\ UNCHANGED <<HAS_WIN32COM, export_lines, outer_attempt, attempt, idx, copied,
                   fast_log, fast_calls, slept, export_ret,
                   strategy_log,
                   excel_hosts,
                   export_names,
                   new_wb,
                   other_excel>>
    /\ UNCHANGED not_cvars

\* lines 189-191: ExcelComContext.__enter__ (lines 93-100) and Workbooks.Add.
\* DispatchEx starts a host or raises; the three property assignments of lines
\* 97-99 are made on the started host and may raise as well, and an exception
\* that leaves __enter__ leaves the with statement without a call of __exit__.
\* Workbooks.Add is in the body: its exception passes through __exit__ (lines
\* 102-109), which quits the host and, had_error being true, runs taskkill on
\* every EXCEL.EXE (lines 129-138: /IM EXCEL.EXE names the image, not the
\* process the strategy started).
FastEnter ==
    /\ cpc = "fast_enter"
    /\ \E host \in {"answers", "not_started", "setup_raises", "add_raises"} :
          /\ excel_hosts' = CASE host = "answers"      -> excel_hosts + 1
                              [] host = "not_started"  -> excel_hosts
                              [] host = "setup_raises" -> excel_hosts + 1
                              [] host = "add_raises"   -> 0
          /\ other_excel' = IF host = "add_raises" THEN FALSE ELSE other_excel
          /\ IF host = "answers"
             THEN /\ idx' = 0
                  /\ copied' = 0
                  /\ new_wb' = << >>
                  /\ cpc' = "fast_line"
                  /\ UNCHANGED exc
             ELSE /\ exc' = [type |-> "com_error", attempt |-> attempt]
                  /\ cpc' = "inner_except"
                  /\ UNCHANGED <<idx, copied, new_wb>>
    /\ UNCHANGED <<HAS_WIN32COM, dest, export_lines, outer_attempt, attempt, last_progress,
                   fast_log, fast_calls, slept, export_ret,
                   strategy_log,
                   progress_log,
                   export_names>>
    /\ UNCHANGED not_cvars

\* lines 193-213, one round of the loop: the sheet of the line is copied, or the
\* failure to do so is logged; the progress callback follows in both cases
FastLine ==
    /\ cpc = "fast_line"
    /\ idx < Len(export_lines)
    /\ copied' = IF export_lines[idx + 1] = "ok" THEN copied + 1 ELSE copied
    /\ new_wb' = IF export_lines[idx + 1] = "ok"
                 THEN Append(new_wb,
                             [line |-> idx + 1,
                              title |-> ExcelTitle(new_wb,
                                           sanitize_sheet_name(export_names[idx + 1]))])
                 ELSE new_wb
    /\ last_progress' = LineProgress(idx, Len(export_lines))
    /\ progress_log' = Append(progress_log, LineProgress(idx, Len(export_lines)))
    /\ idx' = idx + 1
    /\ UNCHANGED <<HAS_WIN32COM, dest, export_lines, cpc, outer_attempt, attempt, exc,
                   fast_log, fast_calls, slept, export_ret,
                   strategy_log,
                   excel_hosts,
                   export_names,
                   other_excel>>
    /\ UNCHANGED not_cvars

\* lines 215-234: the default sheets are deleted (Excel refuses to delete the
\* last sheet of a workbook, the refusal is swallowed), progress 95, SaveAs,
\* progress 100, return; the return passes through the inner wrapper (line 149),
\* through line 299 and through the outer wrapper. Both ways out of the with
\* statement run __exit__ (lines 102-109): _safe_close quits the host of this
\* attempt, and after an exception _force_kill ends every EXCEL.EXE.
FastSave ==
    /\ cpc = "fast_line"
    /\ idx = Len(export_lines)
    /\ \E save_ok \in BOOLEAN :
          IF save_ok
          THEN /\ dest' = "present"
               /\ last_progress' = 100
               /\ progress_log' = progress_log \o <<95, 100>>
               /\ fast_log' = Append(fast_log, Event("return", attempt, 0, NoExc))
               /\ export_ret' = [kind |-> "returned",
                                 sheets_count |-> IF copied = 0 THEN 1 ELSE copied,
                                 mode |-> "COM", exc |-> NoExc]
               /\ strategy_log' = Append(strategy_log, StrategyRun("fast", "ok", "none"))
               /\ excel_hosts' = excel_hosts - 1
               /\ other_excel' = other_excel
               /\ cpc' = "returned"
               /\ UNCHANGED exc
          ELSE /\ last_progress' = 95
               /\ progress_log' = Append(progress_log, 95)
               /\ excel_hosts' = 0
               /\ other_excel' = FALSE
               /\ exc' = [type |-> "com_error", attempt |-> attempt]
               /\ cpc' = "inner_except"
               /\ UNCHANGED <<dest, fast_log, export_ret, strategy_log>>
    /\ UNCHANGED <<HAS_WIN32COM, export_lines, outer_attempt, attempt, idx, copied,
                   fast_calls, slept,
                   export_names,
                   new_wb>>
    /\ UNCHANGED not_cvars

\* the inner wrapper, lines 150-155: the last attempt re-raises into line 300,
\* where copy_sheets_with_fallback turns to copy_sheets_openpyxl; an earlier one
\* sleeps and goes round the loop
InnerExcept ==
    /\ cpc = "inner_except"
    /\ IF attempt >= max_attempts
       THEN /\ fast_log' = fast_log \o <<Event("failed", attempt, 0, exc),
                                         Event("raise", exc.attempt, 0, exc)>>
            /\ strategy_log' = Append(strategy_log, StrategyRun("fast", "failed", exc.type))
            /\ cpc' = "portable_start"
            /\ UNCHANGED <<attempt, slept>>
       ELSE /\ fast_log' = fast_log \o <<Event("failed", attempt, 0, exc),
                                         Event("sleep", attempt, Backoff(attempt), NoExc)>>
            /\ strategy_log' = strategy_log \o <<StrategyRun("fast", "failed", exc.type),
                                                  StrategyRun("inner", "sleep", "none")>>
            /\ slept' = slept + Backoff(attempt)
            /\ attempt' = attempt + 1
            /\ cpc' = "inner_loop"
    /\ UNCHANGED <<HAS_WIN32COM, dest, export_lines, outer_attempt, idx, copied,
                   last_progress, exc, fast_calls, export_ret,
                   excel_hosts,
                   progress_log,
                   export_names,
                   new_wb,
                   other_excel>>
    /\ UNCHANGED not_cvars

\* copy_sheets_openpyxl, lines 237-250: progress 5, the removal of an existing
\* destination, a workbook without sheets; an exception goes to the outer wrapper
PortableStart ==
    /\ cpc = "portable_start"
    /\ last_progress' = 5
    /\ progress_log' = Append(progress_log, 5)
    /\ IF dest = "locked"
       THEN /\ exc' = [type |-> "PermissionError", attempt |-> outer_attempt]
            /\ strategy_log' = strategy_log \o <<StrategyRun("portable", "start", "none"),
                                                  StrategyRun("portable", "failed", "PermissionError")>>
            /\ cpc' = "outer_except"
            /\ UNCHANGED <<dest, idx, copied, new_wb>>
       ELSE /\ dest' = "absent"
            /\ idx' = 0
            /\ copied' = 0
            /\ new_wb' = << >>
            /\ strategy_log' = Append(strategy_log, StrategyRun("portable", "start", "none"))
            /\ cpc' = "portable_line"
            /\ UNCHANGED exc
    /\ UNCHANGED <<HAS_WIN32COM, export_lines, outer_attempt, attempt, fast_log,
                   fast_calls, slept, export_ret,
                   excel_hosts,
                   export_names,
                   other_excel>>
    /\ UNCHANGED not_cvars

\* lines 251-285, one round of the loop: a source without the sheet is passed
\* over by the continue of line 257 (which also passes over the progress
\* callback), a source that cannot be opened raises out of the function
PortableLine ==
    /\ cpc = "portable_line"
    /\ idx < Len(export_lines)
    /\ CASE export_lines[idx + 1] = "ok" ->
              /\ copied' = copied + 1
              /\ new_wb' = Append(new_wb,
                                  [line |-> idx + 1,
                                   title |-> OpenpyxlTitle(new_wb,
                                                sanitize_sheet_name(export_names[idx + 1]))])
              /\ last_progress' = LineProgress(idx, Len(export_lines))
              /\ progress_log' = Append(progress_log, LineProgress(idx, Len(export_lines)))
              /\ idx' = idx + 1
              /\ UNCHANGED <<exc, cpc, strategy_log>>
         [] export_lines[idx + 1] = "no_sheet" ->
              /\ idx' = idx + 1
              /\ UNCHANGED <<copied, new_wb, last_progress, progress_log, exc, cpc,
                             strategy_log>>
         [] OTHER ->
              /\ exc' = [type |-> "load_error", attempt |-> outer_attempt]
              /\ strategy_log' = Append(strategy_log, StrategyRun("portable", "failed", "load_error"))
              /\ cpc' = "outer_except"
              /\ UNCHANGED <<copied, new_wb, last_progress, progress_log, idx>>
    /\ UNCHANGED <<HAS_WIN32COM, dest, export_lines, outer_attempt, attempt, fast_log,
                   fast_calls, slept, export_ret,
                   excel_hosts,
                   export_names,
                   other_excel>>
    /\ UNCHANGED not_cvars

\* lines 287-294: progress 95, save, progress 100, return through line 304 and
\* the outer wrapper; openpyxl refuses to save a workbook without sheets
PortableSave ==
    /\ cpc = "portable_line"
    /\ idx = Len(export_lines)
    /\ IF copied > 0
       THEN /\ dest' = "present"
            /\ last_progress' = 100
            /\ progress_log' = progress_log \o <<95, 100>>
            /\ export_ret' = [kind |-> "returned", sheets_count |-> copied,
                              mode |-> "openpyxl", exc |-> NoExc]
            /\ strategy_log' = Append(strategy_log, StrategyRun("portable", "ok", "none"))
            /\ cpc' = "returned"
            /\ UNCHANGED exc
       ELSE /\ last_progress' = 95
            /\ progress_log' = Append(progress_log, 95)
            /\ exc' = [type |-> "save_error", attempt |-> outer_attempt]
            /\ strategy_log' = Append(strategy_log, StrategyRun("portable", "failed", "save_error"))
            /\ cpc' = "outer_except"
            /\ UNCHANGED <<dest, export_ret>>
    /\ UNCHANGED <<HAS_WIN32COM, export_lines, outer_attempt, attempt, idx, copied,
                   fast_log, fast_calls, slept,
                   excel_hosts,
                   export_names,
                   new_wb,
                   other_excel>>
    /\ UNCHANGED not_cvars

\* the outer wrapper, lines 150-155: the last attempt re-raises to the caller,
\* an earlier one sleeps and calls the body of copy_sheets_with_fallback again
OuterExcept ==
    /\ cpc = "outer_except"
    /\ IF outer_attempt >= max_attempts
       THEN /\ export_ret' = [kind |-> "raised", sheets_count |-> 0, mode |-> "none",
                              exc |-> exc]
            /\ strategy_log' = Append(strategy_log, StrategyRun("outer", "raise", exc.type))
            /\ cpc' = "raised"
            /\ UNCHANGED <<outer_attempt, slept>>
       ELSE /\ slept' = slept + Backoff(outer_attempt)
            /\ strategy_log' = Append(strategy_log, StrategyRun("outer", "sleep", "none"))
            /\ outer_attempt' = outer_attempt + 1
            /\ cpc' = "outer_loop"
            /\ UNCHANGED export_ret
    /\ UNCHANGED <<HAS_WIN32COM, dest, export_lines, attempt, idx, copied, last_progress,
                   exc, fast_log, fast_calls,
                   excel_hosts,
                   progress_log,
                   export_names,
                   new_wb,
                   other_excel>>
    /\ UNCHANGED not_cvars

CNext ==
    \/ CallExport
    \/ OuterTry
    \/ InnerTry
    \/ FastCheck
    \/ FastEnter
    \/ FastLine
    \/ FastSave
    \/ InnerExcept
    \/ PortableStart
    \/ PortableLine
    \/ PortableSave
    \/ OuterExcept

(***************************************************************************)
(* Specifications                                                          *)
(***************************************************************************)
Init == PInit /\ HInit /\ SIdle /\ CIdle /\ NIdle /\ EIdle /\ AIdle

Next == PNext

\* ExcelProcessor.run
Spec == Init /\ [][Next]_vars

\* ExcelProcessor.run with threads that keep running: the thread of run and
\* every pool thread take their next step when it stays possible (each file
\* operation returns); the user need not cancel
SpecRunFair ==
    /\ Spec
    /\ WF_vars(Run) /\ WF_vars(Submit) /\ WF_vars(Collect) /\ WF_vars(MainLock)
    /\ WF_vars(Count) /\ WF_vars(Shutdown)
    /\ \A i \in Slots : WF_vars(Worker(i))

HistInit == PIdle /\ HInit /\ SIdle /\ CIdle /\ NIdle /\ EIdle /\ AIdle

HistNext == HNext

\* HistoryManager with concurrent callers
SpecHist == HistInit /\ [][HistNext]_vars

SheetInit == PIdle /\ HInit /\ SInit /\ CIdle /\ NIdle /\ EIdle /\ AIdle

SheetNext == SNext

\* ExcelProcessor.process_sheet on one worksheet
SpecSheet == SheetInit /\ [][SheetNext]_vars

CopyInit == PIdle /\ HInit /\ SIdle /\ CInit /\ NIdle /\ EIdle /\ AIdle

CopyNext == CNext

\* one call of copy_sheets_with_fallback
SpecCopy == CopyInit /\ [][CopyNext]_vars

NameInit == PIdle /\ HInit /\ SIdle /\ CIdle /\ NInit /\ EIdle /\ AIdle

NameNext == NNext

\* _sanitize_sheet_name on one line name
SpecName == NameInit /\ [][NameNext]_vars

EditInit == PIdle /\ HInit /\ SIdle /\ CIdle /\ NIdle /\ EInit /\ AIdle

EditNext == ENext

\* the events of one line under the user's additions, edits and deletions
SpecEdit == EditInit /\ [][EditNext]_vars

AppInit == PIdle /\ HInit /\ SIdle /\ CIdle /\ NIdle /\ EIdle /\ AInit

AppNext == ANext

\* the window's date field, runs and saves to the history
SpecApp == AppInit /\ [][AppNext]_vars


(***************************************************************************)
(* Properties of ExcelProcessor.run                                        *)
(***************************************************************************)
Paths == 1..total_files

TermCount(i) == Cardinality({k \in 1..Len(status[i]) : Terminal(status[i][k])})

Occurrences(i) == Cardinality({k \in 1..Len(valid_lines_data) : valid_lines_data[k] = i})

InResult(i) == Occurrences(i) > 0

\* C1: no non-blank path ever receives more than one terminal status, and when
\* run has returned without cancellation ever requested every non-blank path
\* has received exactly one
C1_ExactlyOneTerminal ==
    \A i \in Paths :
        /\ TermCount(i) <= 1
        /\ (mpc = "done" /\ ~cancel_event) => TermCount(i) = 1

\* C2: when run returns after the cancellation flag was set, every non-blank
\* path has received a terminal status
C2_TerminalAfterCancel ==
    (mpc = "done" /\ cancel_event) => \A i \in Paths : TermCount(i) >= 1

\* C3: cancellation is cooperative.  A file whose worker saw the flag at entry
\* was never opened, one whose worker saw it right after opening was never
\* extracted, and neither has a LineRecord; a worker that was past its post-open
\* check when the flag was set is never cancelled: when run returns it has
\* finished as it would have without the flag, and if its extraction was
\* valid its LineRecord is in the result
C3_CooperativeCancel ==
    \A i \in Slots :
        /\ outcome[i] = "cancelled_entry" =>
               i \notin opened /\ i \notin extracted /\ ~InResult(i)
        /\ outcome[i] = "cancelled_open" => i \notin extracted /\ ~InResult(i)
        /\ (mpc = "done" /\ i \in past_check) =>
               /\ pc[i] = "finished"
               /\ outcome[i] \in {"ok", "missing_sheet", "empty_sheet", "read_error",
                                  "extract_error"}
               /\ outcome[i] # "missing_sheet" => i \in extracted
               /\ outcome[i] = "ok" => InResult(i)

\* C3 witness: run has returned; one worker was past its check when the flag was
\* set and its record is in the result, another saw the flag right after opening
C3_Witness ==
    /\ mpc = "done"
    /\ \E i \in past_check, j \in Slots :
         InResult(i) /\ outcome[j] = "cancelled_open" /\ j \notin extracted

Failed(i) == outcome[i] \in {"missing_file", "missing_sheet", "open_error",
                             "read_error", "extract_error"}

\* C4: when run returns, a file that failed (file missing, sheet missing, an
\* exception or error while reading the workbook) has only error terminal
\* statuses and no LineRecord; the failure stops no other path: every other path
\* whose extraction was valid has its LineRecord in the result, and unless
\* cancellation was requested every other path was processed to a terminal status
C4_FailureIsolated ==
    mpc = "done" =>
      \A i \in Paths :
        Failed(i) =>
          /\ TermCount(i) >= 1
          /\ \A k \in 1..Len(status[i]) :
                 Terminal(status[i][k]) => status[i][k][2] = "error"
          /\ ~InResult(i)
          /\ \A j \in Paths \ {i} :
               /\ outcome[j] = "ok" => InResult(j)
               /\ ~cancel_event =>
                      pc[j] = "finished" /\ outcome[j] # "none" /\ TermCount(j) >= 1

\* C4 witness: a run without cancellation in which the first file failed and the
\* second was parsed and is in the result
C4_Witness ==
    /\ mpc = "done"
    /\ ~cancel_event
    /\ \E i, j \in Paths : i < j /\ Failed(i) /\ outcome[j] = "ok" /\ InResult(j)

\* C5: a worker appends only while it holds the lock and run updates the
\* processed counter only while it holds the lock; no append is lost: at any
\* moment, and so when run returns, the result holds exactly one LineRecord for
\* each path whose extraction succeeded and none for any other
C5_LockedUpdates ==
    /\ \A i \in Slots : pc[i] = "append" => lock = i
    /\ mpc = "count" => lock = Main
    /\ \A i \in Slots : Occurrences(i) = (IF outcome[i] = "ok" THEN 1 ELSE 0)
    /\ mpc = "done" =>
          Len(valid_lines_data) = Cardinality({i \in Slots : outcome[i] = "ok"})

\* C5 witness: one worker waits for the lock while run holds it to count the
\* other worker's file, whose record is already in the result
C5_Witness ==
    \E i, j \in Slots :
        /\ i # j
        /\ mpc = "count"
        /\ pc[i] = "lock"
        /\ InResult(j)

(***************************************************************************)
(* Properties of HistoryManager                                            *)
(***************************************************************************)
\* the (line name, event) pairs of a lines_data argument, line by line
RECURSIVE Flatten(_)
Flatten(lines) ==
    IF lines = <<>> THEN <<>>
    ELSE [k \in 1..Len(Head(lines).problems) |->
              <<Head(lines).line_name, Head(lines).problems[k]>>]
         \o Flatten(Tail(lines))

\* what a stored row says about its line and event
Stored(r) == <<r.line_name, [shift |-> r.shift_type, time_val |-> r.time_val,
                             type_val |-> r.problem_type, formulation |-> r.description,
                             comment |-> r.comment]>>

StoredFor(key) ==
    LET rows == RowsOf(problems, key) IN [k \in 1..Len(rows) |-> Stored(rows[k])]

\* C6: the rows stored for a date are exactly the events of the most recent
\* successful save for that date, one row per event and none of an earlier save
C6_LastSaveWins ==
    \A key \in DateKeys : StoredFor(key) = Flatten(latest[key].lines_data)

\* C6 witness: a second successful save for a date has replaced the non-empty
\* rows of the first by other rows
C6_Witness == replaced /\ \A c \in Callers : hpc[c] = "idle"

\* C7: in every committed state all rows of one date were inserted by one
\* save_problems call, the last one that committed for that date
C7_OneGeneration ==
    \A key \in DateKeys :
        \A k \in 1..Len(RowsOf(problems, key)) :
            RowsOf(problems, key)[k].by = latest[key].id

\* C7 witness: two saves for one date ran at the same time and both committed
C7_Witness == interleaved /\ \E key \in DateKeys : RowsOf(problems, key) # <<>>

\* C8: the rows of a date change only in the step in which a save_problems call
\* for that very date commits; no other save and no query changes them
C8_OnlySameDateOverwrite ==
    [][\A key \in DateKeys :
          RowsOf(problems', key) # RowsOf(problems, key) =>
              \E c \in Callers : /\ hpc[c] = "commit"
                                 /\ hpc'[c] = "idle"
                                 /\ KeyOf(args[c]) = key]_vars

\* C8 witness: a save has committed for one date while another date, saved
\* earlier, keeps its rows
C8_Witness ==
    \E k1, k2 \in DateKeys :
        /\ RowsOf(problems, k1) # <<>>
        /\ RowsOf(problems, k2) # <<>>
        /\ latest[k1].id < latest[k2].id

\* C9: save_problems never raises to its caller
C9_NeverRaises == \A c \in Callers : ret[c].kind # "raised"

RECURSIVE TotalEvents(_)
TotalEvents(lines) ==
    IF lines = <<>> THEN 0 ELSE Len(Head(lines).problems) + TotalEvents(Tail(lines))

\* C10: after a successful save the reported count equals the number of rows the
\* call inserted and the total number of events of the lines passed in, and
\* no stored row belongs to a line that was passed without events
C10_CountIsEvents ==
    /\ \A c \in Callers :
          (ret[c].kind = "returned" /\ ret[c].ok) =>
              /\ ret[c].count = ret[c].inserted
              /\ ret[c].count = TotalEvents(args[c].lines_data)
    /\ \A key \in DateKeys :
          \A k \in 1..Len(RowsOf(problems, key)) :
              \E j \in 1..Len(latest[key].lines_data) :
                  /\ latest[key].lines_data[j].line_name = RowsOf(problems, key)[k].line_name
                  /\ latest[key].lines_data[j].problems # <<>>

\* C10 witness: a successful save of two lines, one of them without events,
\* that reported one row
C10_Witness ==
    \E c \in Callers :
        /\ ret[c].kind = "returned"
        /\ ret[c].ok
        /\ ret[c].count = 1
        /\ Len(args[c].lines_data) = 2

\* the arguments the calendar passes to the two queries: the numbers of the
\* months and years saved, and neighbours of them for which nothing is stored
QueryDays == {5, 14, 15}
QueryMonths == {0, 5, 6}
QueryYears == {2024, 2025}

\* the positions of the stored rows of one month and year
InMonth(month, year) ==
    {k \in 1..Len(problems) : /\ problems[k].shift_month = month
                              /\ problems[k].shift_year = year}

RECURSIVE SumAt(_)
SumAt(S) ==
    IF S = {} THEN 0
    ELSE LET k == CHOOSE x \in S : TRUE
         IN  problems[k].time_val + SumAt(S \ {k})

\* C11: get_month_stats(month, year) has as keys exactly the days of the stored
\* rows of that month and year, each with the sum of the durations of its rows;
\* a day without stored rows is no key (it is not present with 0)
C11_MonthStatsKeys ==
    \A month \in QueryMonths, year \in QueryYears :
        LET stats == MonthStats(problems, month, year)
        IN  /\ DOMAIN stats = {problems[k].shift_day : k \in InMonth(month, year)}
            /\ \A dd \in DOMAIN stats :
                  stats[dd] = SumAt({k \in InMonth(month, year) :
                                        problems[k].shift_day = dd})

\* C11 witness: rows of two days of May 2024 are stored beside rows of another
\* date, day 14 sums three rows, and day 15 has none
C11_Witness ==
    LET stats == MonthStats(problems, 5, 2024)
    IN  /\ DOMAIN stats = {5, 14}
        /\ Cardinality({k \in InMonth(5, 2024) : problems[k].shift_day = 14}) = 3
        /\ stats[14] = 120
        /\ 15 \notin DOMAIN stats

\* the positions of the stored rows of one day
OnDay(day, month, year) ==
    {k \in InMonth(month, year) : problems[k].shift_day = day}

\* C12: get_day_details(day, month, year) returns the stored rows whose day,
\* month and year all equal the arguments, each as often as it is stored and
\* nothing else, in non-increasing order of duration
C12_DayDetailsExact ==
    \A day \in QueryDays, month \in QueryMonths, year \in QueryYears :
        LET data == DayDetails(problems, day, month, year)
            hit == OnDay(day, month, year)
        IN  /\ Len(data) = Cardinality(hit)
            /\ \A k \in hit :
                  Cardinality({j \in 1..Len(data) : data[j] = Detail(problems[k])})
                      = Cardinality({h \in hit : Detail(problems[h]) = Detail(problems[k])})
            /\ \A j \in 1..(Len(data) - 1) : data[j][2] >= data[j + 1][2]

\* C12 witness: day 14 of May 2024 has rows of different durations, rows of
\* day 14 of another month are stored too, and the query returns the former only
C12_Witness ==
    LET data == DayDetails(problems, 14, 5, 2024)
    IN  /\ Len(data) = 3
        /\ data[1][2] > data[3][2]
        /\ OnDay(14, 0, 2024) # {}

(***************************************************************************)
(* Properties of ExcelProcessor.process_sheet                              *)
(***************************************************************************)
DetailRows == (47..113) \cup (162..205)

SummaryRows == (21..42) \cup (136..158)

\* the number a cell stands for, if it stands for one
CellNumber(val) ==
    CASE val.t = "num" -> Number(val.v)
      [] val.t = "str" -> val.denotes
      [] OTHER -> NoNumber

DurationOf(r) == CellNumber(RowValues(sheet, r)[11])

\* the rows from which the scan made an entry
ScannedRows == {sheet_result.scanned[k].row : k \in 1..Len(sheet_result.scanned)}

ReturnedRows == {sheet_result.problems[k].row : k \in 1..Len(sheet_result.problems)}

\* the terms each exclusion string of the inputs asks for
TermsOf(str) == IF str = <<>> THEN {} ELSE {<<"B", "r", "e", "a", "k">>, <<"s", "t", "o", "p">>}

SameLetter(a, b) == LowerChar(a) = LowerChar(b)

\* the category of row r holds one of the terms, whatever the case of the letters
CategoryMatches(r) ==
    LET cat == RowValues(sheet, r)[8]
    IN  /\ cat.t = "str"
        /\ \E term \in TermsOf(exclude_str) :
              \E off \in 0..(Len(cat.s) - Len(term)) :
                  \A j \in 1..Len(term) : SameLetter(cat.s[off + j], term[j])

\* C13: after process_sheet has scanned a sheet, no event comes from a detail
\* row of either shift whose duration is below the threshold, and a row whose
\* duration equals a positive threshold and whose category is not excluded
\* does yield an event
C13_BelowThresholdSkipped ==
    sheet_result.msg = "OK" =>
        \A r \in DetailRows :
            LET d == DurationOf(r)
            IN  /\ (d.ok /\ d.v < 10 * min_minutes_threshold) =>
                      r \notin ScannedRows /\ r \notin ReturnedRows
                /\ (d.ok /\ d.v = 10 * min_minutes_threshold /\ d.v > 0 /\ ~CategoryMatches(r)) =>
                      r \in ScannedRows

\* C13 witness: a sheet with a row of duration 5 and a row of duration 10 was
\* scanned with threshold 10, and the row of duration 10 gave an event
C13_Witness ==
    /\ sheet_result.msg = "OK"
    /\ min_minutes_threshold = 10
    /\ \E r \in DetailRows : DurationOf(r) = Number(50)
    /\ \E r \in ScannedRows : DurationOf(r) = Number(100)

\* C14: no event comes from a detail row whose category holds an exclusion term
\* as a substring in any letter case, whatever the row's duration; the terms are
\* the trimmed non-empty pieces between the commas of the exclusion string
C14_ExcludedCategorySkipped ==
    /\ {ExcludedList(exclude_str)[k] : k \in 1..Len(ExcludedList(exclude_str))}
          = TermsOf(exclude_str)
    /\ sheet_result.msg = "OK" =>
          \A r \in DetailRows :
              CategoryMatches(r) => r \notin ScannedRows /\ r \notin ReturnedRows

\* C14 witness: a row of duration 60, above every threshold, has a category that
\* holds "BREAK" for the term "Break", and the scan that skipped it made an
\* event from another row
C14_Witness ==
    /\ sheet_result.msg = "OK"
    /\ \E r \in DetailRows : CategoryMatches(r) /\ DurationOf(r) = Number(600)
    /\ sheet_result.scanned # <<>>

\* C15: no event that process_sheet returns has a zero duration, for every
\* threshold, threshold 0 included, and for durations written as numbers or as
\* texts such as "0"
C15_NoZeroDuration ==
    \A k \in 1..Len(sheet_result.problems) : sheet_result.problems[k].time_val # 0

\* C16: process_sheet returns at most 2 events, in non-increasing order of
\* duration, taken from the events of the rows of the two detail ranges, and no
\* event left out has a larger duration than a returned one
C16_TopTwo ==
    sheet_result.msg = "OK" =>
        LET res == sheet_result.problems
            all == sheet_result.scanned
        IN  /\ Len(res) <= 2
            /\ Len(res) = (IF Len(all) < 2 THEN Len(all) ELSE 2)
            /\ \A k \in 1..Len(res) : \E j \in 1..Len(all) : all[j] = res[k]
            /\ Cardinality(ReturnedRows) = Len(res)
            /\ ScannedRows \subseteq DetailRows
            /\ \A k \in 1..(Len(res) - 1) : res[k].time_val >= res[k + 1].time_val
            /\ \A j \in 1..Len(all) :
                  all[j].row \notin ReturnedRows =>
                      \A k \in 1..Len(res) : all[j].time_val <= res[k].time_val

\* C16 witness: three rows gave events, and the two returned are not the first
\* two of the sheet
C16_Witness ==
    /\ sheet_result.msg = "OK"
    /\ Len(sheet_result.scanned) = 3
    /\ Len(sheet_result.problems) = 2
    /\ sheet_result.problems[2].row # sheet_result.scanned[2].row

\* the first-column cell of row r is None or a text of blanks
FirstColumnBlank(r) ==
    LET val == RowValues(sheet, r)[1]
    IN  val.t = "none" \/ (val.t = "str" /\ \A k \in 1..Len(val.s) : val.s[k] = " ")

\* C17: when the rows were read and the first-column cells of both summary
\* ranges are all blank, process_sheet returns EmptySheet with no events, plan 0
\* and fact 0, and has called neither the summation nor the scan of the detail
\* ranges
C17_EmptySheet ==
    (/\ sheet_result.msg \notin {"none", "read error"}
     /\ \A r \in SummaryRows : FirstColumnBlank(r)) =>
        /\ sheet_result.msg = "empty"
        /\ ~sheet_result.is_valid
        /\ sheet_result.problems = <<>>
        /\ sheet_result.plan = 0
        /\ sheet_result.fact = 0
        /\ "sum_vals" \notin sheet_result.ran
        /\ "get_problems" \notin sheet_result.ran

\* C17 witness: a sheet with plan values, with a detail row of duration 45 and
\* with a first-column cell that holds blanks only was returned as EmptySheet
C17_Witness ==
    /\ sheet_result.msg = "empty"
    /\ \E r \in SummaryRows : RowValues(sheet, r)[1].t = "str"
    /\ \E r \in SummaryRows : RowValues(sheet, r)[10] = Num(1000)
    /\ \E r \in DetailRows : DurationOf(r) = Number(450)

\* rows 21, 23, ..., 31 and 136, 138, ..., 146
TotalRows == {21 + 2 * k : k \in 0..5} \cup {136 + 2 * k : k \in 0..5}

\* what a cell adds to a total: its number, 0 if it stands for none
ValueOf(val) == IF CellNumber(val).ok THEN CellNumber(val).v ELSE 0

RECURSIVE SumColumn(_, _)
SumColumn(rows, col) ==
    IF rows = {} THEN 0
    ELSE LET r == CHOOSE x \in rows : TRUE
         IN  ValueOf(RowValues(sheet, r)[col]) + SumColumn(rows \ {r}, col)

\* C18: for a sheet that is not empty, plan is the sum over rows 21, 23, ..., 31
\* and 136, 138, ..., 146 of the numbers of column 10 and fact the same sum of
\* column 11; a number counts as it is, a text as the number it holds once its
\* commas are points and its blanks are removed, and a blank cell or one that
\* holds no number counts 0
C18_PlanFactTotals ==
    sheet_result.msg = "OK" =>
        /\ sheet_result.plan = SumColumn(TotalRows, 10)
        /\ sheet_result.fact = SumColumn(TotalRows, 11)

\* C18 witness: totals over a number, the text "1 000,5", a text that holds no
\* number, and a row that the alternation steps over
C18_Witness ==
    /\ sheet_result.msg = "OK"
    /\ sheet_result.plan = 11005
    /\ sheet_result.fact = 900
    /\ 22 \in DOMAIN sheet

\* the processing of detail row r raises: its duration is a date or a text that
\* holds no number
RowFails(r) ==
    LET val == RowValues(sheet, r)[11]
    IN  val.t = "date" \/ (val.t = "str" /\ val.s # <<>> /\ ~val.denotes.ok)

\* the sheet with row r blank
Without(r) == [x \in DOMAIN sheet \ {r} |-> sheet[x]]

\* C19: a detail row whose processing fails gives no event, and process_sheet
\* returns what it returns for the same sheet with that row blank: the events
\* of the other rows, the totals and the validity are the same
C19_RowFailureIsolated ==
    sheet_result.msg \notin {"none", "read error"} =>
        \A r \in DetailRows \cap DOMAIN sheet :
            RowFails(r) =>
                /\ r \notin ScannedRows
                /\ sheet_result = process_sheet(Without(r), min_minutes_threshold,
                                                ExcludedList(exclude_str), FALSE)

\* C19 witness: a row whose duration is the text "abc" precedes a row that gave
\* an event
C19_Witness ==
    /\ sheet_result.msg = "OK"
    /\ \E r \in DetailRows : /\ RowFails(r)
                            /\ \E q \in ScannedRows : q > r

(***************************************************************************)
(* Properties of retry_on_failure around copy_sheets_fast                  *)
(***************************************************************************)
\* the positions of fast_log that hold event ev
LogPositions(ev) == {p \in 1..Len(fast_log) : fast_log[p].ev = ev}

\* what one call of the decorated copy_sheets_fast has done so far is a prefix
\* of: invoke 1, failed 1, sleep 1, invoke 2, failed 2, sleep 2, invoke 3,
\* failed 3, raise, cut short by the return of an attempt
RetryLogOK ==
    LET n == Len(fast_log)
    IN  /\ Cardinality(LogPositions("invoke")) <= 3
        /\ \A p \in LogPositions("invoke") :
              /\ fast_log[p].attempt = Cardinality({q \in LogPositions("invoke") : q <= p})
              /\ p = 1 \/ fast_log[p - 1].ev = "sleep"
        /\ \A p \in LogPositions("return") : p = n
        /\ \A p \in LogPositions("failed") :
              /\ fast_log[p - 1] = Event("invoke", fast_log[p].attempt, 0, NoExc)
              /\ fast_log[p].exc.attempt = fast_log[p].attempt
              /\ fast_log[p].attempt = 1 => fast_log[p + 1].ev = "sleep" /\ fast_log[p + 1].delay = 1
              /\ fast_log[p].attempt = 2 => fast_log[p + 1].ev = "sleep" /\ fast_log[p + 1].delay = 2
              /\ fast_log[p].attempt = 3 =>
                    /\ p + 1 = n
                    /\ fast_log[n].ev = "raise"
                    /\ fast_log[n].exc = fast_log[p].exc
        /\ \A p \in LogPositions("sleep") :
              fast_log[p - 1].ev = "failed" /\ fast_log[p - 1].attempt \in {1, 2}
        /\ \A p \in LogPositions("raise") :
              fast_log[p - 1].ev = "failed" /\ fast_log[p - 1].attempt = 3

\* C20: one call of copy_sheets_fast under retry_on_failure(max_attempts=3,
\* base_delay=1) invokes the fast strategy at most 3 times; after the failure of
\* attempt 1 it sleeps 1 and after that of attempt 2 it sleeps 2 before the next
\* attempt; after the failure of attempt 3 it sleeps no more and raises that
\* attempt's exception; and once an attempt has returned, the fast strategy is
\* not invoked again
C20_RetryBackoff ==
    /\ []RetryLogOK
    /\ [][LogPositions("return") # {} => fast_calls' = fast_calls]_vars

\* C20 witness: three attempts have failed, the wrapper has slept 1 and 2 between
\* them and has raised the exception of the third
C20_Witness ==
    /\ Len(fast_log) = 9
    /\ fast_log[3].delay = 1
    /\ fast_log[6].delay = 2
    /\ fast_log[9].ev = "raise"
    /\ fast_log[9].exc.attempt = 3
    /\ cpc = "portable_start"

(***************************************************************************)
(* Properties of copy_sheets_with_fallback                                 *)
(***************************************************************************)
\* the positions of strategy_log where who did what
RunPositions(who, what) ==
    {p \in 1..Len(strategy_log) : strategy_log[p].who = who /\ strategy_log[p].what = what}

\* the fast attempts that failed before position p and after the portable run
\* before p, if there is one
FailedBefore(p) ==
    {q \in RunPositions("fast", "failed") :
        /\ q < p
        /\ \A r \in RunPositions("portable", "start") : r < p => r < q}

PortableStartsAfterThree ==
    \A p \in RunPositions("portable", "start") : Cardinality(FailedBefore(p)) = 3

LastRun == strategy_log[Len(strategy_log)]

ModeNamesProducer ==
    /\ export_ret.mode = "COM" <=>
          (export_ret.kind = "returned" /\ LastRun = StrategyRun("fast", "ok", "none"))
    /\ export_ret.mode = "openpyxl" <=>
          (export_ret.kind = "returned" /\ LastRun = StrategyRun("portable", "ok", "none"))

PortableFailureEndsCall ==
    \A p \in RunPositions("portable", "failed") :
        /\ \A q \in (p + 1)..Len(strategy_log) :
              strategy_log[q].who = "outer" /\ strategy_log[q].what = "raise"
        /\ export_ret.kind # "returned"

Detections == {p \in 1..Len(strategy_log) : strategy_log[p].exc = "PermissionError"
                                            /\ strategy_log[p].who \in {"fast", "portable"}}

\* C22: when the destination exists and is open elsewhere, the first run that
\* meets it ends the export with that error: no fast attempt, no sleep and no
\* portable run follows the detection, the call raises PermissionError, and
\* the destination is not written
C22_LockedAbortsAtOnce ==
    /\ \A p \in Detections :
          \A q \in (p + 1)..Len(strategy_log) :
              strategy_log[q] = StrategyRun("outer", "raise", "PermissionError")
    /\ Detections # {} => dest = "locked"
    /\ (Detections # {} /\ cpc \in {"returned", "raised"}) =>
          export_ret.kind = "raised" /\ export_ret.exc.type = "PermissionError"

\* the number of lines of the export whose sheet can be copied
Copyable == Cardinality({k \in 1..Len(export_lines) : export_lines[k] = "ok"})

\* C23: a run of copy_sheets_openpyxl that finds the destination free
\* completes: no line that cannot be copied and no other failure makes it
\* raise, and the count it returns is the number of lines that can be copied
C23_PortableCompletes ==
    /\ \A p \in RunPositions("portable", "failed") :
          strategy_log[p].exc = "PermissionError"
    /\ export_ret.mode = "openpyxl" => export_ret.sheets_count = Copyable

\* the positions of the export at which an attempt of copy_sheets_fast is
\* between the start of its Excel host and the end of its with statement
InFastBody == cpc = "fast_line"

\* C24: whenever no attempt of the fast strategy is inside its with statement
\* (it has returned, it has raised, or it has not begun), no Excel host that
\* the export started is alive
C24_NoHostLeft == ~InFastBody => excel_hosts = 0

\* the values the progress scale allows for an export of n lines
LineMilestones(n) == {10 + ((80 * (i + 1)) \div n) : i \in 0..(n - 1)}
Milestones(n) == {5, 95, 100} \cup LineMilestones(n)

\* C25: every value passed to the progress callback is one of the milestones
\* 5, 10 + floor(80 (i+1) / n), 95 and 100 and lies in 0..100; the per-line
\* values lie in 10..90 and the one of the last line is 90; the value 100 is
\* the last one of the export and is passed only when the workbook has been
\* saved
C25_ProgressMilestones ==
    LET n == Len(export_lines) IN
    /\ \A p \in 1..Len(progress_log) :
          /\ progress_log[p] \in Milestones(n)
          /\ progress_log[p] \in 0..100
          /\ progress_log[p] = 100 =>
                p = Len(progress_log) /\ dest = "present" /\ cpc = "returned"
    /\ LineMilestones(n) \subseteq 10..90
    /\ n > 0 => 10 + ((80 * n) \div n) = 90
    /\ (cpc = "fast_line" /\ idx = n /\ n > 0) => progress_log[Len(progress_log)] = 90

C25_Witness ==
    /\ cpc = "returned"
    /\ Len(export_lines) = 2
    /\ \E p \in 1..Len(progress_log) : progress_log[p] = 50
    /\ \E p \in 1..Len(progress_log) : progress_log[p] = 90
    /\ \E p \in 1..Len(progress_log) : progress_log[p] = 95
    /\ progress_log[1] = 5
    /\ progress_log[Len(progress_log)] = 100

IllegalChars == {ILLEGAL[i] : i \in 1..Len(ILLEGAL)}

\* the first 31 characters of a text, each character a sheet name may not
\* have replaced by an underscore
CutAndReplaced(text) ==
    [i \in 1..(IF Len(text) < 31 THEN Len(text) ELSE 31) |->
        IF text[i] \in {"\\", "/", "*", "?", ":", "[", "]"} THEN "_" ELSE text[i]]

\* C26: the name _sanitize_sheet_name returns has at most 31 characters, none
\* of them one of \ / * ? : [ ], and is the first 31 characters of the line
\* name with each such character replaced by an underscore; applied to its own
\* result the function returns that result
C26_SanitizedName ==
    /\ npc \in {"once", "twice"} =>
          /\ Len(safe_name) <= 31
          /\ \A i \in 1..Len(safe_name) :
                safe_name[i] \notin {"\\", "/", "*", "?", ":", "[", "]"}
          /\ safe_name = CutAndReplaced(line_name)
    /\ npc = "twice" => safe_again = safe_name

C26_Witness ==
    /\ npc = "twice"
    /\ Len(line_name) > 31
    /\ line_name[31] \in IllegalChars
    /\ line_name[32] \in IllegalChars
    /\ safe_name # SubSeq(line_name, 1, 31)

\* the sheets of the workbook that come from line k
SheetsOf(k) == {p \in 1..Len(new_wb) : new_wb[p].line = k}

\* C27: in the workbook an export returns, every line that can be copied has
\* one sheet, no other line has one, and the title of the sheet of a line is
\* the sanitized name of the line, also when two lines have the same one
C27_SheetPerLine ==
    cpc = "returned" =>
       \A k \in 1..Len(export_lines) :
          /\ Cardinality(SheetsOf(k)) = (IF export_lines[k] = "ok" THEN 1 ELSE 0)
          /\ \A p \in SheetsOf(k) : new_wb[p].title = CutAndReplaced(export_names[k])

\* the reports of path i that come before its p-th one
Earlier(i, p) == {status[i][q] : q \in 1..(p - 1)}

\* the progress values of path i never go down, every report is one of the five
\* the pipeline makes, and none with state 'processing' follows a terminal one
OrderedReports(i) ==
    /\ \A p \in 1..Len(status[i]) :
          status[i][p] \in {<<10, "processing">>, <<30, "processing">>,
                            <<70, "processing">>, <<100, "done">>, <<100, "error">>}
    /\ \A p, q \in 1..Len(status[i]) : p < q => status[i][p][1] <= status[i][q][1]
    /\ \A p, q \in 1..Len(status[i]) :
          (p < q /\ status[i][p][1] = 100) => status[i][q][2] # "processing"

\* 30 comes only after 10 and 70 only after 30
ProcessingInOrder(i) ==
    \A p \in 1..Len(status[i]) :
       /\ status[i][p][1] = 30 => <<10, "processing">> \in Earlier(i, p)
       /\ status[i][p][1] = 70 => <<30, "processing">> \in Earlier(i, p)

\* C28 as stated: the reports of a path follow processing 10, processing 30,
\* processing 70, terminal 100; progress never goes down, no milestone (the
\* terminal one included) is reported without the ones before it, and no
\* 'processing' follows the terminal status
C28_MilestoneOrderAsStated ==
    \A i \in Slots :
       /\ OrderedReports(i)
       /\ ProcessingInOrder(i)
       /\ \A p \in 1..Len(status[i]) :
             status[i][p][1] = 100 => <<70, "processing">> \in Earlier(i, p)

\* C28 amended: as above, but only the terminal status 'done' needs all three
\* processing milestones before it; 'error' may follow any number of them
C28_MilestoneOrder ==
    \A i \in Slots :
       /\ OrderedReports(i)
       /\ ProcessingInOrder(i)
       /\ \A p \in 1..Len(status[i]) :
             status[i][p] = <<100, "done">> => <<70, "processing">> \in Earlier(i, p)

C28_Witness ==
    \E i, j \in Slots :
       /\ status[i] = << <<10, "processing">>, <<30, "processing">>,
                         <<70, "processing">>, <<100, "done">> >>
       /\ status[j] = << <<10, "processing">>, <<100, "error">> >>

\* C29: in every state the events of a line are at most 2 and no event is
\* longer than the one before it
C29_TwoSortedEvents ==
    /\ Len(ld_problems) <= 2
    /\ \A p \in 1..(Len(ld_problems) - 1) :
          ld_problems[p].time_val >= ld_problems[p + 1].time_val

\* the status the reports of path i end in
LastStatus(i) == IF status[i] = << >> THEN "none" ELSE status[i][Len(status[i])][2]

\* C30: the record of a path is in the result exactly when the status the
\* path ends in is 'done', a path reported 'done' has its record in the result
\* already, and a path whose sheet is empty, missing or unreadable ends in
\* 'error' without a record
C30_RecordIffDone ==
    \A i \in Slots :
       /\ InResult(i) <=> LastStatus(i) = "done"
       /\ <<100, "done">> \in {status[i][p] : p \in 1..Len(status[i])} => InResult(i)
       /\ outcome[i] \in {"empty_sheet", "missing_sheet", "read_error", "extract_error"} =>
             LastStatus(i) = "error" /\ ~InResult(i)

\* no work item is being executed
NoWorkerRunning == \A k \in Slots : pc[k] \in {"new", "finished", "cancelled"}

\* C31: run returns in the end; when it has returned every submitted work item
\* has finished or was cancelled before it started, and from then on the
\* result list gets no append and no status callback is made, with or without
\* cancellation
C31_RunTerminatesQuiet ==
    /\ <>(mpc = "done")
    /\ [](mpc = "done" => NoWorkerRunning /\ \A k \in 1..futures : Completed(k))
    /\ [][mpc = "done" => valid_lines_data' = valid_lines_data /\ status' = status]_vars

C31_Witness ==
    /\ mpc = "done"
    /\ cancel_event
    /\ \E k, j \in Slots : pc[k] = "cancelled" /\ pc[j] = "finished" /\ status[j] # << >>

\* the value <<numerator, denominator>> stands for is 100
IsHundred(v) == v[1] = 100 * v[2]

\* the collecting loop has yielded every path's future and counted each, which
\* it does only when it did not see the cancellation flag set
AllCollected ==
    /\ total_files > 0
    /\ futures = total_files
    /\ yielded = 1..total_files
    /\ \A k \in 1..total_files : pc[k] = "finished"
    /\ processed_count = total_files

\* C32: the overall progress values never go down and never exceed 100, no
\* file is counted twice, 100 is reported exactly when every non-blank path's
\* work completed and was collected without the loop seeing a cancellation,
\* and without a non-blank path the only value is 0 and the result is empty
C32_OverallProgress ==
    /\ \A p \in 1..Len(progress) :
          /\ progress[p][2] > 0
          /\ progress[p][1] >= 0
          /\ progress[p][1] <= 100 * progress[p][2]
    /\ \A p, q \in 1..Len(progress) :
          p < q => progress[p][1] * progress[q][2] <= progress[q][1] * progress[p][2]
    /\ processed_count <= Cardinality(yielded)
    /\ Cardinality(yielded) <= total_files
    /\ total_files > 0 => Len(progress) = processed_count
    /\ (\E p \in 1..Len(progress) : IsHundred(progress[p])) <=>
          (AllCollected /\ mpc \in {"collect", "shutdown", "done"})
    /\ (total_files = 0 /\ mpc = "done") =>
          progress = << <<0, 1>> >> /\ valid_lines_data = << >>

C32_Witness ==
    /\ mpc = "done"
    /\ total_files = 2
    /\ cancel_event
    /\ progress = << <<100, 2>>, <<200, 2>> >>

\* the callers whose last call of save_problems returned failure
FailedCallers == {c \in Callers : ret[c].kind = "returned" /\ ~ret[c].ok}

\* C33: a call of save_problems that returns failure has changed nothing in
\* the store: the table changes only in the step in which some call commits
\* and returns success, and no row of a failed call is in the table
C33_FailureLeavesStore ==
    /\ [][problems' # problems =>
            \E c \in Callers : hpc[c] = "commit" /\ ret'[c].kind = "returned" /\ ret'[c].ok]_vars
    /\ [](\A c \in FailedCallers :
             \A k \in 1..Len(problems) : problems[k].by # args[c].id)

C33_Witness ==
    \E c \in FailedCallers :
       /\ RowsOf(problems, KeyOf(args[c])) # << >>
       /\ \E k \in 1..Len(args[c].lines_data) : args[c].lines_data[k].problems # << >>
       /\ \A k \in 1..Len(problems) : problems[k].by # args[c].id

\* the rows whose first-column cell the emptiness check reads
OperatorRows == (37..42) \cup (152..157)

\* C34: once the rows were read, process_sheet reports EmptySheet exactly when
\* the first-column cells of rows 37-42 and 152-157 are all blank; the first
\* column of the other summary rows has no part in it
C34_EmptyByOperatorRows ==
    sheet_result.msg \notin {"none", "read error"} =>
        (sheet_result.msg = "empty" <=> \A r \in OperatorRows : FirstColumnBlank(r))

C34_Witness ==
    /\ sheet_result.msg = "empty"
    /\ ~FirstColumnBlank(36)
    /\ ~FirstColumnBlank(151)
    /\ ~FirstColumnBlank(158)
    /\ 152 \in DOMAIN sheet

\* C35: within one call of copy_sheets_with_fallback the values passed to the
\* progress callback never go down, across the retries of the fast strategy
\* and across the switch to the portable one
C35_ProgressNeverDrops ==
    \A p, q \in 1..Len(progress_log) : p < q => progress_log[p] <= progress_log[q]

\* C36: the count a successful copy_sheets_fast returns is the number of lines
\* whose sheet was copied, which is the number of sheets of the saved workbook
\* (none of them a default blank sheet), also when no line could be copied
C36_FastCountIsCopies ==
    export_ret.mode = "COM" =>
        /\ export_ret.sheets_count = Copyable
        /\ export_ret.sheets_count = Len(new_wb)

\* C37: an Excel process the export did not start keeps running through every
\* step of the export, the forced termination after a failed fast attempt
\* included
C37_OtherExcelSurvives == [][other_excel => other_excel']_vars

\* C38: the rows the history holds for a day were extracted for that day: a
\* save stores the events under the date of the run that produced them, also
\* when the date of the window was changed in between
C38_SavedUnderRunDate ==
    \A d \in HistoryDays : stored[d] # 0 => stored[d] = d

\* how often an event occurs in a list
TimesIn(events, e) == Cardinality({p \in 1..Len(events) : events[p] = e})

\* two lists hold the same events
SameEvents(left, right) ==
    \A e \in EventInputs : TimesIn(left, e) = TimesIn(right, e)

\* C39: a step that deletes a row of the table takes exactly one event out of
\* the list of the line, the others staying in place, also when another event
\* has the same duration and description; afterwards the list and the table
\* hold the same events
C39_DeleteExactlyOne ==
    [][Len(tree') < Len(tree) =>
          /\ \E k \in 1..Len(ld_problems) : ld_problems' = RemoveAt(ld_problems, k)
          /\ SameEvents(ld_problems', tree')]_vars

\* the rows of the table a step has changed
ChangedRows == {k \in 1..Len(tree) : Len(tree') = Len(tree) /\ tree'[k] # tree[k]}

\* C40: a step that edits a row of the table gives the event of that row, and
\* no other event of the line, the values the row now shows, also when another
\* event has the same duration; an entry that is no number changes nothing
C40_EditExactlyThat ==
    [][\A k \in ChangedRows :
          /\ k \in 1..Len(ld_problems)
          /\ ld_problems' = [ld_problems EXCEPT ![k] = tree'[k]]]_vars

=============================================================================
